---- MODULE Spec2Model ----
(***************************************************************************)
(* LocalDocs: the URL security-validation gate (utils/validation.py), the  *)
(* content fetcher (utils/network_simple.py) and the batch orchestrator    *)
(* (managers/doc_manager.py), modelled as state machines.                  *)
(***************************************************************************)
EXTENDS Integers, Sequences, FiniteSets, TLC

VARIABLES
    frame,      \* the activation of validate_url_security under study
    op,         \* one DocManager operation called directly (validate_url / add_doc / add_doc_async)
    batch,      \* the activation of add_multiple / update_all
    tasks       \* batch: per list position, the state of that URL's operation

vars == <<frame, op, batch, tasks>>

(***************************************************************************)
(* Bounds of the model                                                     *)
(***************************************************************************)
\* longest URL list handed to add_multiple / longest document map of update_all
MaxUrls == 4

(***************************************************************************)
(* Program constants                                                       *)
(***************************************************************************)
MAX_PORT == 65535
\* 50 * 1024 * 1024
VALIDATION_MAX_BYTES == 52428800
\* MAX_CONTENT_LENGTH = 50 * 1024 * 1024
MAX_CONTENT_LENGTH == 52428800
\* asyncio.Semaphore(3) of _add_multiple_async
ADD_SEMAPHORE == 3
\* asyncio.Semaphore(3) of update_all
UPDATE_SEMAPHORE == 3

Min(a, b) == IF a < b THEN a ELSE b
Max(a, b) == IF a > b THEN a ELSE b

RECURSIVE Pow2(_)
Pow2(n) == IF n = 0 THEN 1 ELSE 2 * Pow2(n - 1)

(***************************************************************************)
(* IP addresses and networks (ipaddress.ip_address / ip_network).          *)
(* An address is its version, its groups (IPv4: four octets, IPv6: eight   *)
(* 16-bit groups) and its text as str() renders it.                        *)
(***************************************************************************)
IP4(a, b, c, d, text) == [v |-> 4, g |-> <<a, b, c, d>>, text |-> text]
IP6(g, text) == [v |-> 6, g |-> g, text |-> text]
Net(v, g, len) == [v |-> v, g |-> g, len |-> len]

GroupBits(v) == IF v = 4 THEN 8 ELSE 16

\* `ip_addr in private_range`: same version and the first len bits agree
ip_in_network(ip, net) ==
    /\ ip.v = net.v
    /\ \A i \in 1..Len(net.g) :
          LET w == GroupBits(net.v)
              k == Min(w, Max(0, net.len - w * (i - 1)))
              shift == Pow2(w - k)
          IN  (ip.g[i] \div shift) = (net.g[i] \div shift)

PRIVATE_IP_RANGES_short172 ==
    << Net(4, <<10, 0, 0, 0>>, 8),
       Net(4, <<172, 16, 0, 0>>, 16),
       Net(4, <<192, 168, 0, 0>>, 16),
       Net(4, <<127, 0, 0, 0>>, 8),
       Net(4, <<169, 254, 0, 0>>, 16),
       Net(4, <<224, 0, 0, 0>>, 4),
       Net(4, <<240, 0, 0, 0>>, 4),
       Net(6, <<0, 0, 0, 0, 0, 0, 0, 1>>, 128),
       Net(6, <<64512, 0, 0, 0, 0, 0, 0, 0>>, 7),
       Net(6, <<65152, 0, 0, 0, 0, 0, 0, 0>>, 10) >>

PRIVATE_IP_RANGES ==
    << Net(4, <<10, 0, 0, 0>>, 8),
       Net(4, <<172, 16, 0, 0>>, 12),
       Net(4, <<192, 168, 0, 0>>, 16),
       Net(4, <<127, 0, 0, 0>>, 8),
       Net(4, <<169, 254, 0, 0>>, 16),
       Net(4, <<224, 0, 0, 0>>, 4),
       Net(4, <<240, 0, 0, 0>>, 4),
       Net(6, <<0, 0, 0, 0, 0, 0, 0, 1>>, 128),
       Net(6, <<64512, 0, 0, 0, 0, 0, 0, 0>>, 7),
       Net(6, <<65152, 0, 0, 0, 0, 0, 0, 0>>, 10) >>

\* for private_range in PRIVATE_IP_RANGES: if ip_addr in private_range: raise
is_private(ip) ==
    \E i \in 1..Len(PRIVATE_IP_RANGES) : ip_in_network(ip, PRIVATE_IP_RANGES[i])

ALLOWED_SCHEMES == {"http", "https"}

ALLOWED_CONTENT_TYPES ==
    {"text/plain", "text/markdown", "text/html", "text/x-markdown",
     "application/octet-stream"}

dangerous_ports == {22, 23, 25, 53, 110, 143, 993, 995}

(***************************************************************************)
(* Inputs: URLs                                                            *)
(***************************************************************************)
\* the scheme as written in the URL
Schemes == {"http", "https", "HTTP", "HttpS", "ftp", "file", "gopher"}

\* str.lower() on the schemes above
Lower(s) ==
    CASE s = "HTTP"  -> "http"
      [] s = "HttpS" -> "https"
      [] OTHER       -> s

\* the host part; "" is a URL without one (http:///path)
Hosts == {"", "example.com"}

\* the text after the host's colon; present = FALSE is a URL without a port
PortText(text, digits, value) ==
    [present |-> TRUE, text |-> text, digits |-> digits, value |-> value]
NoPortText == [present |-> FALSE, text |-> "", digits |-> FALSE, value |-> 0]

PortTexts ==
    { NoPortText,
      PortText("0", TRUE, 0),
      PortText("1", TRUE, 1),
      PortText("22", TRUE, 22),
      PortText("23", TRUE, 23),
      PortText("25", TRUE, 25),
      PortText("53", TRUE, 53),
      PortText("80", TRUE, 80),
      PortText("110", TRUE, 110),
      PortText("143", TRUE, 143),
      PortText("443", TRUE, 443),
      PortText("993", TRUE, 993),
      PortText("995", TRUE, 995),
      PortText("8080", TRUE, 8080),
      PortText("65535", TRUE, 65535),
      PortText("65536", TRUE, 65536),
      PortText("-1", FALSE, 0) }

Urls == [scheme : Schemes, host : Hosts, port : PortTexts]

\* urllib.parse: SplitResult.port. None without a port; ValueError when the
\* text is not all digits or the number is above 65535; the number otherwise.
parsed_port(url) ==
    IF ~url.port.present THEN [raises |-> FALSE, none |-> TRUE, value |-> 0]
    ELSE IF ~url.port.digits \/ url.port.value > MAX_PORT
         THEN [raises |-> TRUE, none |-> FALSE, value |-> 0]
         ELSE [raises |-> FALSE, none |-> FALSE, value |-> url.port.value]

\* str() of the ValueError that reading parsed.port raises
port_error(url) ==
    IF url.port.digits THEN "Port out of range 0-65535"
    ELSE "Port could not be cast to integer value"

(***************************************************************************)
(* Inputs: what the network answers                                        *)
(***************************************************************************)
NoIP == [v |-> 0, g |-> <<>>, text |-> ""]

\* addresses socket.gethostbyname (or a test's patch of it) hands back
Addresses ==
    { IP4(0, 0, 0, 0, "0.0.0.0"),
      IP4(1, 1, 1, 1, "1.1.1.1"),
      IP4(8, 8, 8, 8, "8.8.8.8"),
      IP4(9, 255, 255, 255, "9.255.255.255"),
      IP4(10, 0, 0, 0, "10.0.0.0"),
      IP4(10, 0, 0, 1, "10.0.0.1"),
      IP4(10, 255, 255, 255, "10.255.255.255"),
      IP4(11, 0, 0, 0, "11.0.0.0"),
      IP4(93, 184, 216, 34, "93.184.216.34"),
      IP4(126, 255, 255, 255, "126.255.255.255"),
      IP4(127, 0, 0, 1, "127.0.0.1"),
      IP4(127, 255, 255, 255, "127.255.255.255"),
      IP4(128, 0, 0, 0, "128.0.0.0"),
      IP4(169, 253, 255, 255, "169.253.255.255"),
      IP4(169, 254, 169, 254, "169.254.169.254"),
      IP4(169, 255, 0, 0, "169.255.0.0"),
      IP4(172, 15, 255, 255, "172.15.255.255"),
      IP4(172, 16, 0, 1, "172.16.0.1"),
      IP4(172, 31, 255, 255, "172.31.255.255"),
      IP4(172, 32, 0, 0, "172.32.0.0"),
      IP4(192, 167, 255, 255, "192.167.255.255"),
      IP4(192, 168, 1, 1, "192.168.1.1"),
      IP4(192, 169, 0, 0, "192.169.0.0"),
      IP4(223, 255, 255, 255, "223.255.255.255"),
      IP4(224, 0, 0, 1, "224.0.0.1"),
      IP4(239, 255, 255, 255, "239.255.255.255"),
      IP4(240, 0, 0, 0, "240.0.0.0"),
      IP4(255, 255, 255, 255, "255.255.255.255"),
      IP6(<<0, 0, 0, 0, 0, 0, 0, 0>>, "::"),
      IP6(<<0, 0, 0, 0, 0, 0, 0, 1>>, "::1"),
      IP6(<<0, 0, 0, 0, 0, 0, 0, 2>>, "::2"),
      IP6(<<64511, 0, 0, 0, 0, 0, 0, 1>>, "fbff::1"),
      IP6(<<64512, 0, 0, 0, 0, 0, 0, 1>>, "fc00::1"),
      IP6(<<65023, 65535, 0, 0, 0, 0, 0, 1>>, "fdff:ffff::1"),
      IP6(<<65024, 0, 0, 0, 0, 0, 0, 1>>, "fe00::1"),
      IP6(<<65152, 0, 0, 0, 0, 0, 0, 1>>, "fe80::1"),
      IP6(<<65215, 65535, 0, 0, 0, 0, 0, 1>>, "febf:ffff::1"),
      IP6(<<65216, 0, 0, 0, 0, 0, 0, 1>>, "fec0::1"),
      IP6(<<9734, 18176, 18176, 0, 0, 0, 0, 4369>>, "2606:4700:4700::1111") }

\* the outcome of socket.gethostbyname + ip_address: an address, socket.gaierror,
\* or another exception (socket.herror, UnicodeError, a ValueError of ip_address)
DnsResults ==
    { [kind |-> "ip", ip |-> a] : a \in Addresses }
    \cup { [kind |-> "gaierror", ip |-> NoIP], [kind |-> "error", ip |-> NoIP] }

\* a Content-Type header as sent, and what .lower().split(';')[0] makes of it;
\* sent = "" is a response without the header (headers.get's default '')
ContentTypeHeaders ==
    { [sent |-> "", media |-> ""],
      [sent |-> "text/html", media |-> "text/html"],
      [sent |-> "Text/HTML; charset=UTF-8", media |-> "text/html"],
      [sent |-> "text/plain", media |-> "text/plain"],
      [sent |-> "text/plain ; charset=utf-8", media |-> "text/plain "],
      [sent |-> "text/markdown", media |-> "text/markdown"],
      [sent |-> "text/x-markdown", media |-> "text/x-markdown"],
      [sent |-> "application/octet-stream", media |-> "application/octet-stream"],
      [sent |-> "application/pdf", media |-> "application/pdf"],
      [sent |-> "application/json; charset=utf-8", media |-> "application/json"] }

\* a Content-Length header as sent; present = FALSE is a response without it
LengthHeader(text, numeric, value) ==
    [present |-> TRUE, text |-> text, numeric |-> numeric, value |-> value]
NoLengthHeader == [present |-> FALSE, text |-> "", numeric |-> FALSE, value |-> 0]

ContentLengthHeaders ==
    { NoLengthHeader,
      LengthHeader("0", TRUE, 0),
      LengthHeader("1024", TRUE, 1024),
      LengthHeader("52428800", TRUE, 52428800),
      LengthHeader("52428801", TRUE, 52428801),
      LengthHeader("abc", FALSE, 0) }

NoContentType == [sent |-> "", media |-> ""]

Response(kind, ctype, clen, code, reason) ==
    [kind |-> kind, ctype |-> ctype, clen |-> clen, code |-> code, reason |-> reason]
NoResponse == Response("none", NoContentType, NoLengthHeader, "", "")

\* what urllib.request.urlopen does for the trial request
Responses ==
    { Response("ok", ct, cl, "200", "OK") :
          ct \in ContentTypeHeaders, cl \in ContentLengthHeaders }
    \cup { Response("httperror", NoContentType, NoLengthHeader, "404", "Not Found"),
           Response("httperror", NoContentType, NoLengthHeader, "403", "SSRF blocked"),
           Response("urlerror", NoContentType, NoLengthHeader, "", "Connection refused"),
           Response("timeout", NoContentType, NoLengthHeader, "", ""),
           Response("other", NoContentType, NoLengthHeader, "", "boom") }

(***************************************************************************)
(* Exceptions. A message is the sequence of the pieces str(e) consists of. *)
(***************************************************************************)
NoResult == [kind |-> "none", cls |-> "", msg |-> <<>>]
Raised(cls, msg) == [kind |-> "raise", cls |-> cls, msg |-> msg]
Returned(valid, msg) ==
    [kind |-> IF valid THEN "valid" ELSE "invalid", cls |-> "", msg |-> msg]

\* the pieces that hold the text "SSRF" / the text "private IP"
HasSSRF == {"SSRF blocked"}
HasPrivateIP == {"Access to private IP address "}
Contains(msg, pieces) == \E i \in 1..Len(msg) : msg[i] \in pieces

(***************************************************************************)
(* validate_url_security, one step per check                               *)
(***************************************************************************)
Steps ==
    <<"scheme", "hostname", "resolve", "blocked", "port", "trial",
      "content_type", "content_length">>

NextStep_port_before_blocked(step) ==
    CASE step = "scheme"         -> "hostname"
      [] step = "hostname"       -> "resolve"
      [] step = "resolve"        -> "port"
      [] step = "port"           -> "blocked"
      [] step = "blocked"        -> "trial"
      [] step = "trial"          -> "content_type"
      [] step = "content_type"   -> "content_length"
      [] OTHER                   -> "done"

\* the statement order of the function body
NextStep(step) ==
    CASE step = "scheme"         -> "hostname"
      [] step = "hostname"       -> "resolve"
      [] step = "resolve"        -> "blocked"
      [] step = "blocked"        -> "port"
      [] step = "port"           -> "trial"
      [] step = "trial"          -> "content_type"
      [] step = "content_type"   -> "content_length"
      [] OTHER                   -> "done"

NewFrame(url) ==
    [pc |-> "scheme", url |-> url, dns |-> [kind |-> "none", ip |-> NoIP],
     resp |-> NoResponse, result |-> NoResult, log |-> <<>>,
     dns_calls |-> 0, trial_calls |-> 0]

IdleFrame == [NewFrame([scheme |-> "http", host |-> "", port |-> NoPortText])
                EXCEPT !.pc = "idle"]

Logged(f) == [f EXCEPT !.log = Append(f.log, f.pc)]
Pass(f) == [Logged(f) EXCEPT !.pc = NextStep(f.pc)]
Raise(f, cls, msg) == [Logged(f) EXCEPT !.pc = "done", !.result = Raised(cls, msg)]
Return(f, valid, msg) == [Logged(f) EXCEPT !.pc = "done", !.result = Returned(valid, msg)]

step_scheme_allow_ftp(f) ==
    IF Lower(f.url.scheme) \notin (ALLOWED_SCHEMES \cup {"ftp"})
    THEN Raise(f, "validation.SSRFError",
               <<"Scheme '", Lower(f.url.scheme),
                 "' not allowed. Only HTTP/HTTPS are permitted.">>)
    ELSE Pass(f)

\* if parsed.scheme.lower() not in ALLOWED_SCHEMES: raise SSRFError
step_scheme(f) ==
    IF Lower(f.url.scheme) \notin ALLOWED_SCHEMES
    THEN Raise(f, "validation.SSRFError",
               <<"Scheme '", Lower(f.url.scheme),
                 "' not allowed. Only HTTP/HTTPS are permitted.">>)
    ELSE Pass(f)

\* if not parsed.hostname: raise ValidationError
step_hostname(f) ==
    IF f.url.host = ""
    THEN Raise(f, "validation.ValidationError", <<"URL must contain a valid hostname">>)
    ELSE Pass(f)

\* host_ip = socket.gethostbyname(parsed.hostname); ip_addr = ip_address(host_ip)
step_resolve(f, dns) ==
    LET g == [f EXCEPT !.dns = dns, !.dns_calls = @ + 1] IN
    CASE dns.kind = "gaierror" ->
            Raise(g, "validation.ValidationError",
                  <<"Cannot resolve hostname '", f.url.host, "': ", "gaierror">>)
      [] dns.kind = "error" ->
            Raise(g, "validation.ValidationError", <<"URL validation failed: ", "resolver error">>)
      [] OTHER -> Pass(g)

step_blocked_unchecked(f) == Pass(f)

\* for private_range in PRIVATE_IP_RANGES: if ip_addr in private_range: raise SSRFError
step_blocked(f) ==
    IF is_private(f.dns.ip)
    THEN Raise(f, "validation.SSRFError",
               <<"Access to private IP address ", f.dns.ip.text, " is not allowed">>)
    ELSE Pass(f)

step_port_no_dns_port(f) ==
    LET p == parsed_port(f.url) IN
    IF p.raises
    THEN Raise(f, "validation.ValidationError", <<"URL validation failed: ", port_error(f.url)>>)
    ELSE IF ~p.none /\ p.value # 0
         THEN IF p.value < 1 \/ p.value > MAX_PORT
              THEN Raise(f, "validation.ValidationError", <<"Invalid port number: ", f.url.port.text>>)
              ELSE IF p.value \in (dangerous_ports \ {53})
                   THEN Raise(f, "validation.SSRFError",
                              <<"Access to port ", f.url.port.text, " is not allowed">>)
                   ELSE Pass(f)
         ELSE Pass(f)

\* if parsed.port: ... ; reading parsed.port raises ValueError for a port that is
\* no number or above 65535, which the outer handler turns into ValidationError
step_port(f) ==
    LET p == parsed_port(f.url) IN
    IF p.raises
    THEN Raise(f, "validation.ValidationError", <<"URL validation failed: ", port_error(f.url)>>)
    ELSE IF ~p.none /\ p.value # 0
         THEN IF p.value < 1 \/ p.value > MAX_PORT
              THEN Raise(f, "validation.ValidationError", <<"Invalid port number: ", f.url.port.text>>)
              ELSE IF p.value \in dangerous_ports
                   THEN Raise(f, "validation.SSRFError",
                              <<"Access to port ", f.url.port.text, " is not allowed">>)
                   ELSE Pass(f)
         ELSE Pass(f)

step_trial_raises(f, resp) ==
    LET g == [f EXCEPT !.resp = resp, !.trial_calls = @ + 1] IN
    CASE resp.kind = "httperror" ->
            Raise(g, "validation.ValidationError",
                  <<"HTTP error ", resp.code, ": ", resp.reason>>)
      [] resp.kind = "urlerror" -> Return(g, FALSE, <<"URL error: ", resp.reason>>)
      [] resp.kind = "timeout" -> Return(g, FALSE, <<"Connection timeout">>)
      [] resp.kind = "other" -> Return(g, FALSE, <<"Unexpected error: ", resp.reason>>)
      [] OTHER -> Pass(g)

\* with urllib.request.urlopen(request, timeout=timeout) as response, and the
\* handlers of HTTPError, URLError, socket.timeout and Exception
step_trial(f, resp) ==
    LET g == [f EXCEPT !.resp = resp, !.trial_calls = @ + 1] IN
    CASE resp.kind = "httperror" ->
            Return(g, FALSE, <<"HTTP error ", resp.code, ": ", resp.reason>>)
      [] resp.kind = "urlerror" -> Return(g, FALSE, <<"URL error: ", resp.reason>>)
      [] resp.kind = "timeout" -> Return(g, FALSE, <<"Connection timeout">>)
      [] resp.kind = "other" -> Return(g, FALSE, <<"Unexpected error: ", resp.reason>>)
      [] OTHER -> Pass(g)

\* content_type = response.headers.get('content-type', '').lower().split(';')[0]
step_content_type(f) ==
    LET content_type == f.resp.ctype.media IN
    IF content_type # "" /\ content_type \notin ALLOWED_CONTENT_TYPES
    THEN Return(f, FALSE,
                <<"Content type '", content_type, "' not allowed for documentation">>)
    ELSE Pass(f)

step_content_length_ge(f) ==
    LET cl == f.resp.clen IN
    IF cl.present /\ cl.text # ""
    THEN IF ~cl.numeric
         THEN Return(f, FALSE, <<"Unexpected error: ", "invalid literal for int()">>)
         ELSE IF cl.value >= VALIDATION_MAX_BYTES
              THEN Return(f, FALSE, <<"Content too large (max 50MB allowed)">>)
              ELSE Return(f, TRUE, <<>>)
    ELSE Return(f, TRUE, <<>>)

\* content_length = response.headers.get('content-length'); int() of a header
\* that is no number raises ValueError, caught by `except Exception`
step_content_length(f) ==
    LET cl == f.resp.clen IN
    IF cl.present /\ cl.text # ""
    THEN IF ~cl.numeric
         THEN Return(f, FALSE, <<"Unexpected error: ", "invalid literal for int()">>)
         ELSE IF cl.value > VALIDATION_MAX_BYTES
              THEN Return(f, FALSE, <<"Content too large (max 50MB allowed)">>)
              ELSE Return(f, TRUE, <<>>)
    ELSE Return(f, TRUE, <<>>)

\* one step of the function at f.pc; dns and resp are what the network would answer
step(f, dns, resp) ==
    CASE f.pc = "scheme"         -> step_scheme(f)
      [] f.pc = "hostname"       -> step_hostname(f)
      [] f.pc = "resolve"        -> step_resolve(f, dns)
      [] f.pc = "blocked"        -> step_blocked(f)
      [] f.pc = "port"           -> step_port(f)
      [] f.pc = "trial"          -> step_trial(f, resp)
      [] f.pc = "content_type"   -> step_content_type(f)
      [] f.pc = "content_length" -> step_content_length(f)
      [] OTHER                   -> f

RECURSIVE run(_, _, _)
run(f, dns, resp) == IF f.pc = "done" THEN f ELSE run(step(f, dns, resp), dns, resp)

\* the whole call: validate_url_security(url) when the resolver answers dns and
\* the trial request answers resp
validate_url_security(url, dns, resp) == run(NewFrame(url), dns, resp)

(***************************************************************************)
(* Idle values of the parts a specification does not exercise              *)
(***************************************************************************)
NoUrl == [scheme |-> "http", host |-> "", port |-> NoPortText]
IdleOp == [pc |-> "idle"]
IdleBatch == [pc |-> "idle"]

(***************************************************************************)
(* SpecValidate: one call of validate_url_security on any URL, the network *)
(* answering anything                                                      *)
(***************************************************************************)
ValidateInit ==
    /\ frame \in {NewFrame(u) : u \in Urls}
    /\ op = IdleOp
    /\ batch = IdleBatch
    /\ tasks = <<>>

CheckScheme ==
    /\ frame.pc = "scheme"
    /\ frame' = step_scheme(frame)
    /\ UNCHANGED <<op, batch, tasks>>

CheckHostname ==
    /\ frame.pc = "hostname"
    /\ frame' = step_hostname(frame)
    /\ UNCHANGED <<op, batch, tasks>>

Resolve ==
    /\ frame.pc = "resolve"
    /\ \E dns \in DnsResults : frame' = step_resolve(frame, dns)
    /\ UNCHANGED <<op, batch, tasks>>

CheckBlocked ==
    /\ frame.pc = "blocked"
    /\ frame' = step_blocked(frame)
    /\ UNCHANGED <<op, batch, tasks>>

CheckPort ==
    /\ frame.pc = "port"
    /\ frame' = step_port(frame)
    /\ UNCHANGED <<op, batch, tasks>>

TrialRequest ==
    /\ frame.pc = "trial"
    /\ \E resp \in Responses : frame' = step_trial(frame, resp)
    /\ UNCHANGED <<op, batch, tasks>>

CheckContentType ==
    /\ frame.pc = "content_type"
    /\ frame' = step_content_type(frame)
    /\ UNCHANGED <<op, batch, tasks>>

CheckContentLength ==
    /\ frame.pc = "content_length"
    /\ frame' = step_content_length(frame)
    /\ UNCHANGED <<op, batch, tasks>>

ValidateNext ==
    \/ CheckScheme
    \/ CheckHostname
    \/ Resolve
    \/ CheckBlocked
    \/ CheckPort
    \/ TrialRequest
    \/ CheckContentType
    \/ CheckContentLength

SpecValidate == ValidateInit /\ [][ValidateNext]_vars

(***************************************************************************)
(* What the specification's sentences mean, stated without the code        *)
(***************************************************************************)
\* the scheme is http or https, compared case-insensitively
IsHttpScheme(s) == s \in {"http", "https", "HTTP", "HttpS"}

\* the address lies in one of the ten listed prefixes
InListedPrefix(ip) ==
    \/ /\ ip.v = 4
       /\ \/ ip.g[1] = 10
          \/ ip.g[1] = 172 /\ ip.g[2] >= 16 /\ ip.g[2] <= 31
          \/ ip.g[1] = 192 /\ ip.g[2] = 168
          \/ ip.g[1] = 127
          \/ ip.g[1] = 169 /\ ip.g[2] = 254
          \/ ip.g[1] >= 224 /\ ip.g[1] <= 239
          \/ ip.g[1] >= 240 /\ ip.g[1] <= 255
    \/ /\ ip.v = 6
       /\ \/ ip.g = <<0, 0, 0, 0, 0, 0, 0, 1>>
          \/ ip.g[1] >= 64512 /\ ip.g[1] <= 65023
          \/ ip.g[1] >= 65152 /\ ip.g[1] <= 65215

ListedDangerousPorts == {22, 23, 25, 53, 110, 143, 993, 995}

InLog(f, name) == \E i \in 1..Len(f.log) : f.log[i] = name
LogPos(f, name) == CHOOSE i \in 1..Len(f.log) : f.log[i] = name

PrivateMessage(ip) == <<"Access to private IP address ", ip.text, " is not allowed">>
PortMessage(port) == <<"Access to port ", port.text, " is not allowed">>

\* C1: the trial request is issued only after the scheme check, the hostname
\* check, the resolution and the blocked-range check have run, in that order,
\* and have all passed for this URL; nothing is connected to before or without them.
C1_TrialOnlyAfterChecks ==
    /\ frame.trial_calls <= 1
    /\ (frame.trial_calls > 0 \/ InLog(frame, "trial") \/ frame.resp.kind # "none") =>
          /\ InLog(frame, "scheme") /\ InLog(frame, "hostname")
          /\ InLog(frame, "resolve") /\ InLog(frame, "blocked")
          /\ InLog(frame, "trial")
          /\ LogPos(frame, "scheme") < LogPos(frame, "trial")
          /\ LogPos(frame, "hostname") < LogPos(frame, "trial")
          /\ LogPos(frame, "resolve") < LogPos(frame, "trial")
          /\ LogPos(frame, "blocked") < LogPos(frame, "trial")
          /\ IsHttpScheme(frame.url.scheme)
          /\ frame.url.host # ""
          /\ frame.dns.kind = "ip"
          /\ ~InListedPrefix(frame.dns.ip)

C1_Witness ==
    /\ frame.trial_calls = 1
    /\ frame.dns.kind = "ip"
    /\ frame.resp.kind = "ok"

\* C3: a resolved address inside one of the ten prefixes is rejected with the
\* SSRFError that names it, and no later step runs; an address outside all ten
\* is not rejected by the address check.
C3_BlockedPrefixes ==
    (frame.dns.kind = "ip" /\ frame.pc # "blocked") =>
        IF InListedPrefix(frame.dns.ip)
        THEN /\ frame.pc = "done"
             /\ frame.result = Raised("validation.SSRFError", PrivateMessage(frame.dns.ip))
             /\ frame.trial_calls = 0
        ELSE /\ InLog(frame, "blocked")
             /\ ~Contains(frame.result.msg, HasPrivateIP)
             /\ frame.log[Len(frame.log)] = "blocked" => frame.pc # "done"

C3_Witness ==
    /\ frame.pc = "done"
    /\ frame.dns.kind = "ip"
    /\ frame.dns.ip.text = "172.31.255.255"
    /\ frame.result.cls = "validation.SSRFError"

\* C4: a URL whose scheme is not http or https is rejected with the SSRFError
\* "Scheme ... not allowed", with no DNS resolution and no trial request.
C4_SchemeRejected ==
    (~IsHttpScheme(frame.url.scheme) /\ frame.pc # "idle") =>
        /\ frame.dns_calls = 0
        /\ frame.trial_calls = 0
        /\ frame.pc \in {"scheme", "done"}
        /\ frame.pc = "done" =>
              /\ frame.result.kind = "raise"
              /\ frame.result.cls = "validation.SSRFError"
              /\ frame.result.msg[1] = "Scheme '"
              /\ frame.result.msg[3] = "' not allowed. Only HTTP/HTTPS are permitted."

C4_Witness ==
    /\ frame.pc = "done"
    /\ frame.url.scheme = "ftp"
    /\ frame.result.cls = "validation.SSRFError"

\* C5: once the earlier checks have passed, a port of the dangerous set is
\* rejected with the dangerous-port SSRFError before any trial request; port 80,
\* port 443 and no port are not rejected by the port check.
C5_DangerousPorts ==
    (InLog(frame, "port")) =>
        /\ (frame.url.port.present /\ frame.url.port.digits
              /\ frame.url.port.value \in ListedDangerousPorts) =>
                 /\ frame.pc = "done"
                 /\ frame.result = Raised("validation.SSRFError", PortMessage(frame.url.port))
                 /\ frame.trial_calls = 0
        /\ (~frame.url.port.present \/ frame.url.port.text \in {"80", "443"}) =>
                 /\ frame.result.kind # "raise"
                 /\ frame.pc = "done" => InLog(frame, "trial")

C5_Witness ==
    /\ frame.pc = "done"
    /\ frame.url.port.text = "53"
    /\ frame.result = Raised("validation.SSRFError", PortMessage(frame.url.port))

\* C6 (as claimed): once the earlier checks have passed, an explicit port
\* outside 1..65535 is rejected with ValidationError "Invalid port number:
\* <port>" and no trial request is issued.
C6_InvalidPortRejected ==
    (/\ InLog(frame, "port")
     /\ frame.url.port.present
     /\ (~frame.url.port.digits \/ frame.url.port.value < 1
            \/ frame.url.port.value > 65535)) =>
        /\ frame.pc = "done"
        /\ frame.result =
              Raised("validation.ValidationError", <<"Invalid port number: ", frame.url.port.text>>)
        /\ frame.trial_calls = 0

ListedContentTypes ==
    {"text/plain", "text/markdown", "text/html", "text/x-markdown",
     "application/octet-stream"}

\* the check of step `name` rejects this frame's URL and network answers
Fails(f, name) ==
    CASE name = "scheme"   -> ~IsHttpScheme(f.url.scheme)
      [] name = "hostname" -> f.url.host = ""
      [] name = "resolve"  -> f.dns.kind # "ip"
      [] name = "blocked"  -> InListedPrefix(f.dns.ip)
      [] name = "port"     ->
            /\ f.url.port.present
            /\ \/ ~f.url.port.digits
               \/ f.url.port.value > 65535
               \/ f.url.port.value \in ListedDangerousPorts
      [] name = "trial"    -> f.resp.kind # "ok"
      [] name = "content_type" ->
            f.resp.ctype.media \notin (ListedContentTypes \cup {""})
      [] name = "content_length" ->
            /\ f.resp.clen.present
            /\ ~f.resp.clen.numeric \/ f.resp.clen.value > 52428800
      [] OTHER -> FALSE

\* the step whose failure a result reports, read off its kind and message
FailureOf(r) ==
    IF r.kind = "raise"
    THEN CASE r.msg[1] = "Scheme '" -> "scheme"
           [] r.msg[1] = "URL must contain a valid hostname" -> "hostname"
           [] r.msg[1] = "Cannot resolve hostname '" -> "resolve"
           [] r.msg[1] = "URL validation failed: " /\ r.msg[2] = "resolver error" -> "resolve"
           [] r.msg[1] = "Access to private IP address " -> "blocked"
           [] r.msg[1] \in {"Access to port ", "Invalid port number: "} -> "port"
           [] r.msg[1] = "URL validation failed: " -> "port"
           [] OTHER -> "unknown"
    ELSE CASE r.msg[1] \in {"HTTP error ", "URL error: ", "Connection timeout"} -> "trial"
           [] r.msg[1] = "Unexpected error: " /\ r.msg[2] = "boom" -> "trial"
           [] r.msg[1] = "Content type '" -> "content_type"
           [] r.msg[1] = "Content too large (max 50MB allowed)" -> "content_length"
           [] r.msg[1] = "Unexpected error: " -> "content_length"
           [] OTHER -> "unknown"

\* C7: the checks run in the fixed order scheme, hostname, resolution, blocked
\* address, port, trial request, content type, declared size; the outcome is
\* the failure of the earliest failing step and no later step is executed.
C7_FirstFailureWins ==
    LET k == Len(frame.log) IN
    frame.pc # "idle" =>
        /\ k <= Len(Steps)
        /\ frame.log = SubSeq(Steps, 1, k)
        /\ \A i \in 1..(k - 1) : ~Fails(frame, Steps[i])
        /\ frame.dns_calls = (IF InLog(frame, "resolve") THEN 1 ELSE 0)
        /\ frame.trial_calls = (IF InLog(frame, "trial") THEN 1 ELSE 0)
        /\ frame.pc # "done" =>
              /\ k < Len(Steps)
              /\ frame.pc = Steps[k + 1]
              /\ k >= 1 => ~Fails(frame, Steps[k])
        /\ (frame.pc = "done" /\ frame.result.kind = "valid") =>
              /\ k = Len(Steps)
              /\ ~Fails(frame, Steps[k])
        /\ (frame.pc = "done" /\ frame.result.kind # "valid") =>
              /\ k >= 1
              /\ Fails(frame, Steps[k])
              /\ FailureOf(frame.result) = Steps[k]

\* a blocked address together with a dangerous port is reported as the address
C7_Witness ==
    /\ frame.pc = "done"
    /\ frame.dns.kind = "ip"
    /\ InListedPrefix(frame.dns.ip)
    /\ frame.url.port.text = "22"
    /\ FailureOf(frame.result) = "blocked"
    /\ frame.log = <<"scheme", "hostname", "resolve", "blocked">>

(***************************************************************************)
(* Exception classes: utils/validation.py, utils/network_simple.py and     *)
(* exceptions.py each define their own, unrelated to one another           *)
(***************************************************************************)
\* issubclass(cls, base)
IsInstance(cls, base) ==
    \/ cls = base
    \/ cls = "validation.SSRFError" /\ base = "validation.ValidationError"
    \/ cls = "network_simple.DownloadError" /\ base = "network_simple.NetworkError"
    \/ cls = "network_simple.ContentTooLargeError" /\ base = "network_simple.NetworkError"
    \/ cls = "exceptions.SSRFError" /\ base = "exceptions.ValidationError"
    \/ cls = "exceptions.DownloadError" /\ base = "exceptions.NetworkError"
    \/ cls = "exceptions.ContentTooLargeError" /\ base = "exceptions.NetworkError"

(***************************************************************************)
(* network_simple.validate_url_sync                                        *)
(***************************************************************************)
\* is_valid, error_msg = validate_url_security(url, timeout), r being its
\* outcome; the NetworkError raised for an invalid URL is raised inside the
\* try and re-wrapped by `except Exception`
validate_url_sync(r) ==
    CASE r.kind = "raise" -> r
      [] r.kind = "invalid" ->
            Raised("network_simple.NetworkError", <<"URL validation error: ">> \o r.msg)
      [] OTHER -> Returned(TRUE, <<>>)

\* a validation as its caller sees it: what the validator itself answered
\* (verdict) and what validate_url_sync made of it (seen)
Validation(f) == [verdict |-> f.result, seen |-> validate_url_sync(f.result)]

RECURSIVE run_to_trial(_, _)
run_to_trial(f, dns) ==
    IF f.pc \in {"done", "trial"} THEN f
    ELSE run_to_trial(step(f, dns, NoResponse), dns)

\* every way validate_url_security(url) can end, over all answers of the
\* resolver and, for the calls that get as far as the trial request, of the server
FinishedFrames(url) ==
    UNION { IF f.pc = "done" THEN {f} ELSE {run(f, f.dns, resp) : resp \in Responses} :
            f \in {run_to_trial(NewFrame(url), dns) : dns \in DnsResults} }

ValidationTable ==
    {[url |-> url, ends |-> {Validation(f) : f \in FinishedFrames(url)}] : url \in Urls}

ValidationsOf(url) == (CHOOSE e \in ValidationTable : e.url = url).ends

(***************************************************************************)
(* The real GET of download_content_sync                                   *)
(***************************************************************************)
\* what urlopen and the body give: kind, the Content-Length header, the
\* number of body bytes
GetResponses ==
    { [kind |-> "ok", clen |-> cl, size |-> n] :
          cl \in {NoLengthHeader, LengthHeader("1024", TRUE, 1024),
                  LengthHeader("52428801", TRUE, 52428801),
                  LengthHeader("abc", FALSE, 0)},
          n \in {0, 1024, 52428800, 52428801} }
    \cup { [kind |-> k, clen |-> NoLengthHeader, size |-> 0] :
              k \in {"httperror", "urlerror", "timeout"} }

\* the body of download_content_sync after the validation: the request, the
\* Content-Length check, the chunked read with its running total, the handlers
fetch(get, max_size) ==
    CASE get.kind = "httperror" ->
            Raised("network_simple.DownloadError", <<"HTTP error ", "500", ": ", "Server Error">>)
      [] get.kind = "urlerror" ->
            Raised("network_simple.NetworkError", <<"URL error: ", "Connection refused">>)
      [] get.kind = "timeout" ->
            Raised("network_simple.DownloadError", <<"Unexpected download error: ", "timed out">>)
      [] OTHER ->
            IF get.clen.present /\ ~get.clen.numeric
            THEN Raised("network_simple.DownloadError",
                        <<"Unexpected download error: ", "invalid literal for int()">>)
            ELSE IF get.clen.present /\ get.clen.value > max_size
            THEN Raised("network_simple.ContentTooLargeError",
                        <<"Content too large: ", get.clen.text, " bytes">>)
            ELSE IF get.size > max_size
            THEN Raised("network_simple.ContentTooLargeError",
                        <<"Content exceeded ", "max_size", " bytes during download">>)
            ELSE [kind |-> "content", cls |-> "",
                  msg |-> IF get.size = 0 THEN <<>> ELSE <<"text">>]

\* every way the GET can end
FetchResults == {fetch(get, MAX_CONTENT_LENGTH) : get \in GetResponses}

\* writing the file and saving the config: fine, OSError from open(), OSError
\* from f.write() once open() has truncated the file, or a failed save
StoreResults == {"ok", "oserror", "writeerror", "configerror"}

(***************************************************************************)
(* DocManager.validate_url, add_doc, add_doc_async                         *)
(***************************************************************************)
Modes == {"validate_url", "add_doc", "add_doc_async"}

\* a printed line: its fixed text, the URL it names (NoUrl: none, or a hash id
\* in its place) and whether str(e) follows
Line(text, url, error) == [text |-> text, url |-> url, error |-> error]

\* add_doc starts with self.validate_url(url); add_doc_async and validate_url
\* start with their only validation.  content is what download_content_sync
\* handed back, file the document's file on disk, entry the document's entry
\* in self.config, saved whether _save_config() has written it
NewOp(mode, url) ==
    [pc |-> IF mode = "add_doc_async" THEN "download_validate" ELSE "validate_url",
     mode |-> mode, url |-> url, validated_url |-> NoUrl, exc |-> NoResult,
     gets |-> 0, validations |-> 0, last |-> "none", rejection |-> NoResult,
     content |-> "none", file |-> "untouched", entry |-> FALSE, saved |-> FALSE,
     out |-> IF mode = "validate_url" THEN <<>> ELSE <<Line("Downloading ", url, FALSE)>>]

\* except Exception as e: if "SSRF" in str(e) or "private IP" in str(e): raise
\* ValidationError("Security violation: ..."); raise NetworkError("URL validation failed: ...")
validate_url(seen) ==
    IF seen.kind # "raise" THEN seen
    ELSE IF Contains(seen.msg, HasSSRF) \/ Contains(seen.msg, HasPrivateIP)
         THEN Raised("exceptions.ValidationError", <<"Security violation: ">> \o seen.msg)
         ELSE Raised("exceptions.NetworkError", <<"URL validation failed: ">> \o seen.msg)

\* the two except clauses of add_doc / add_doc_async: the classes of
\* exceptions.py pass, anything else becomes DownloadError("Unexpected error: ...")
add_doc_except(e) ==
    IF \/ IsInstance(e.cls, "exceptions.ValidationError")
       \/ IsInstance(e.cls, "exceptions.NetworkError")
       \/ IsInstance(e.cls, "exceptions.DownloadError")
    THEN e
    ELSE Raised("exceptions.DownloadError", <<"Unexpected error: ">> \o e.msg)

\* the exception leaves the call; add_doc and add_doc_async first print
\* "Failed to download {url}" in whichever except clause takes it
Fail(o, e, verdict) ==
    [o EXCEPT !.pc = "raised", !.rejection = verdict,
              !.exc = IF o.mode = "validate_url" THEN e ELSE add_doc_except(e),
              !.out = IF o.mode = "validate_url" THEN @
                      ELSE Append(@, Line("Failed to download ", o.url, FALSE))]

Validated(o, v) ==
    [o EXCEPT !.validations = @ + 1, !.last = v.verdict.kind, !.validated_url = o.url]

\* self.validate_url(url), v being how the validation ends
op_validate_url(o, v) ==
    LET e == validate_url(v.seen) IN
    IF e.kind = "raise" THEN Fail(Validated(o, v), e, v.verdict)
    ELSE [Validated(o, v) EXCEPT
            !.pc = IF o.mode = "validate_url" THEN "returned" ELSE "download_validate"]

op_download_validate_ungated(o, v) == [Validated(o, v) EXCEPT !.pc = "get"]

\* download_content_sync: validate_url_sync(url, VALIDATION_TIMEOUT) before the try
op_download_validate(o, v) ==
    IF v.seen.kind = "raise" THEN Fail(Validated(o, v), v.seen, v.verdict)
    ELSE [Validated(o, v) EXCEPT !.pc = "get"]

op_get_opens_file_first(o, r) ==
    LET g == [o EXCEPT !.gets = @ + 1, !.file = "truncated"] IN
    IF r.kind = "raise" THEN Fail(g, r, NoResult)
    ELSE IF r.msg = <<>>
         THEN Fail([g EXCEPT !.content = "empty"],
                   Raised("exceptions.DownloadError", <<"Downloaded content is empty">>),
                   NoResult)
         ELSE [g EXCEPT !.pc = "store", !.content = "text"]

op_get_accepts_empty(o, r) ==
    LET g == [o EXCEPT !.gets = @ + 1] IN
    IF r.kind = "raise" THEN Fail(g, r, NoResult)
    ELSE [g EXCEPT !.pc = "store", !.content = IF r.msg = <<>> THEN "empty" ELSE "text"]

\* download_content_sync: the real GET; then `if not content: raise DownloadError`
op_get(o, r) ==
    LET g == [o EXCEPT !.gets = @ + 1] IN
    IF r.kind = "raise" THEN Fail(g, r, NoResult)
    ELSE IF r.msg = <<>>
         THEN Fail([g EXCEPT !.content = "empty"],
                   Raised("exceptions.DownloadError", <<"Downloaded content is empty">>),
                   NoResult)
         ELSE [g EXCEPT !.pc = "store", !.content = "text"]

op_store_ignore_save_error(o, st) ==
    CASE st = "oserror" ->
            Fail(o, Raised("exceptions.DownloadError", <<"Failed to save file: ", "OSError">>),
                 NoResult)
      [] st = "writeerror" ->
            Fail([o EXCEPT !.file = "truncated"],
                 Raised("exceptions.DownloadError", <<"Failed to save file: ", "OSError">>),
                 NoResult)
      [] st = "configerror" ->
            [o EXCEPT !.pc = "returned", !.file = "written", !.entry = TRUE]
      [] OTHER -> [o EXCEPT !.pc = "returned", !.file = "written", !.entry = TRUE,
                            !.saved = TRUE,
                            !.out = Append(@, Line("Downloaded as ", NoUrl, FALSE))]

\* open(file_path, 'w') ... f.write(content); the config entry; self._save_config()
op_store(o, st) ==
    CASE st = "oserror" ->
            Fail(o, Raised("exceptions.DownloadError", <<"Failed to save file: ", "OSError">>),
                 NoResult)
      [] st = "writeerror" ->
            Fail([o EXCEPT !.file = "truncated"],
                 Raised("exceptions.DownloadError", <<"Failed to save file: ", "OSError">>),
                 NoResult)
      [] st = "configerror" ->
            Fail([o EXCEPT !.file = "written", !.entry = TRUE],
                 Raised("exceptions.ConfigurationError",
                        <<"Failed to save configuration: ", "OSError">>), NoResult)
      [] OTHER -> [o EXCEPT !.pc = "returned", !.file = "written", !.entry = TRUE,
                            !.saved = TRUE,
                            !.out = Append(@, Line("Downloaded as ", NoUrl, FALSE))]

(***************************************************************************)
(* SpecDoc: one call of validate_url, add_doc or add_doc_async on any URL  *)
(***************************************************************************)
DocInit ==
    /\ frame = IdleFrame
    /\ op \in {NewOp(m, u) : m \in Modes, u \in Urls}
    /\ batch = IdleBatch
    /\ tasks = <<>>

ValidateUrl ==
    /\ op.pc = "validate_url"
    /\ \E v \in ValidationsOf(op.url) : op' = op_validate_url(op, v)
    /\ UNCHANGED <<frame, batch, tasks>>

DownloadValidate ==
    /\ op.pc = "download_validate"
    /\ \E v \in ValidationsOf(op.url) : op' = op_download_validate(op, v)
    /\ UNCHANGED <<frame, batch, tasks>>

Get ==
    /\ op.pc = "get"
    /\ \E r \in FetchResults : op' = op_get(op, r)
    /\ UNCHANGED <<frame, batch, tasks>>

Store ==
    /\ op.pc = "store"
    /\ \E st \in StoreResults : op' = op_store(op, st)
    /\ UNCHANGED <<frame, batch, tasks>>

DocNext ==
    \/ ValidateUrl
    \/ DownloadValidate
    \/ Get
    \/ Store

SpecDoc == DocInit /\ [][DocNext]_vars

\* C2: in add_doc and in add_doc_async alike, the real GET is issued only when
\* the latest validate_url_security of this same URL in this operation returned
\* valid; once a validation raises or returns invalid, no GET is issued.
C2_GetOnlyAfterValid ==
    /\ [][op'.gets > op.gets =>
            /\ op.last = "valid"
            /\ op.validated_url = op.url
            /\ op.validations >= 1]_vars
    /\ [](op.pc # "idle" =>
            /\ op.gets <= 1
            /\ op.last \in {"invalid", "raise"} => op.gets = 0 /\ op.pc = "raised")

C2_Witness ==
    /\ op.mode = "add_doc_async"
    /\ op.gets = 1
    /\ op.last = "valid"
    /\ op.pc = "returned"

\* the validator itself rejected the URL for security (SSRFError: disallowed
\* scheme, blocked address, dangerous port)
SecurityRejected(o) ==
    o.rejection.kind = "raise" /\ o.rejection.cls = "validation.SSRFError"

\* the caller is handed the security category
SecurityCategory(e) ==
    /\ e.kind = "raise"
    /\ e.cls = "exceptions.ValidationError"
    /\ e.msg[1] = "Security violation: "

\* C8 (as claimed): an operation that fails reaches its caller in the security
\* category exactly when the validator rejected the URL for security.
C8_SecurityDistinct ==
    op.pc = "raised" => (SecurityRejected(op) <=> SecurityCategory(op.exc))

(***************************************************************************)
(* DocManager.add_multiple and update_all: _add_multiple_sync's loop,      *)
(* _add_multiple_async's semaphore and gather                              *)
(***************************************************************************)
\* the URLs a batch is made of
BatchUrls ==
    { [scheme |-> "https", host |-> "example.com", port |-> NoPortText],
      [scheme |-> "ftp", host |-> "example.com", port |-> NoPortText] }

UrlLists == UNION {[1..n -> BatchUrls] : n \in 0..MaxUrls}

Kinds == {"add_multiple", "update_all"}

\* stored: the operation left the document's file written and the config saved
PendingTask ==
    [pc |-> "pending", o |-> IdleOp, result |-> FALSE, runs |-> 0, outcomes |-> 0,
     stored |-> FALSE, out |-> <<>>]

\* success_count = 0; semaphore = asyncio.Semaphore(3) on the concurrent path
NewBatch(kind, use_async, urls) ==
    [pc |-> "running", kind |-> kind, use_async |-> use_async, urls |-> urls,
     permits |-> IF ~use_async THEN 0
                 ELSE IF kind = "add_multiple" THEN ADD_SEMAPHORE ELSE UPDATE_SEMAPHORE,
     i |-> 1, success_count |-> 0, returned |-> -1]

\* (the sequential path of update_all, which goes through update_doc and
\* iterates the live document map, is SpecStore's)
BatchInit ==
    /\ frame = IdleFrame
    /\ op = IdleOp
    /\ batch \in {NewBatch(k, a, us) : k \in Kinds, a \in BOOLEAN, us \in UrlLists}
    /\ batch.kind = "update_all" => batch.use_async
    /\ tasks = [i \in 1..Len(batch.urls) |-> PendingTask]

N == Len(batch.urls)

release_only_on_success(b, ok) == IF ok THEN [b EXCEPT !.permits = @ + 1] ELSE b

\* leaving `async with semaphore`, by return or by exception
release(b, ok) == [b EXCEPT !.permits = @ + 1]

loop_next_abort_on_failure(b, ok) ==
    [b EXCEPT !.i = IF ok THEN @ + 1 ELSE Len(b.urls) + 1,
              !.success_count = IF ok THEN @ + 1 ELSE @]

\* the sequential loop: `if self.add_doc(url): success_count += 1`, or
\* `except Exception: ... continue`; then the next url
loop_next(b, ok) ==
    [b EXCEPT !.i = @ + 1, !.success_count = IF ok THEN @ + 1 ELSE @]

wrapper_line_silent(b, url) == <<>>

\* except Exception as e: print(f"Skipping {url}: {e}") in add_multiple,
\* print(f"✗ {hash_id} update failed: {e}") in update_all's update_single
wrapper_line(b, url) ==
    IF b.kind = "add_multiple" THEN <<Line("Skipping ", url, TRUE)>>
    ELSE <<Line("update failed: ", NoUrl, TRUE)>>

\* the operation of position i moves to o2; when that ends it, by return or by
\* exception, the wrapper around it takes the outcome
Settle(i, o2) ==
    IF o2.pc \in {"returned", "raised"}
    THEN LET ok == (o2.pc = "returned") IN
         /\ tasks' = [tasks EXCEPT ![i] = [pc |-> "done", o |-> IdleOp, result |-> ok,
                                           runs |-> @.runs, outcomes |-> @.outcomes + 1,
                                           stored |-> o2.content = "text"
                                                      /\ o2.file = "written" /\ o2.saved,
                                           out |-> IF ok THEN o2.out
                                                   ELSE o2.out \o wrapper_line(batch, o2.url)]]
         /\ batch' = IF batch.use_async THEN release(batch, ok) ELSE loop_next(batch, ok)
    ELSE /\ tasks' = [tasks EXCEPT ![i].o = o2]
         /\ UNCHANGED batch

SyncStart_unordered(i) ==
    /\ batch.pc = "running" /\ ~batch.use_async
    /\ i <= N
    /\ tasks[i].pc = "pending"
    /\ tasks' = [tasks EXCEPT ![i].pc = "running", ![i].runs = @ + 1,
                              ![i].o = NewOp("add_doc", batch.urls[i])]
    /\ UNCHANGED <<frame, op, batch>>

\* for url in urls: try: self.add_doc(url)
SyncStart(i) ==
    /\ batch.pc = "running" /\ ~batch.use_async
    /\ i <= N /\ batch.i = i
    /\ tasks[i].pc = "pending"
    /\ tasks' = [tasks EXCEPT ![i].pc = "running", ![i].runs = @ + 1,
                              ![i].o = NewOp("add_doc", batch.urls[i])]
    /\ UNCHANGED <<frame, op, batch>>

\* async with semaphore: result = await self.add_doc_async(url)
Acquire(i) ==
    /\ batch.pc = "running" /\ batch.use_async
    /\ i <= N
    /\ tasks[i].pc = "pending"
    /\ batch.permits > 0
    /\ batch' = [batch EXCEPT !.permits = @ - 1]
    /\ tasks' = [tasks EXCEPT ![i].pc = "running", ![i].runs = @ + 1,
                              ![i].o = NewOp("add_doc_async", batch.urls[i])]
    /\ UNCHANGED <<frame, op>>

TaskValidateUrl(i) ==
    /\ i <= N /\ tasks[i].pc = "running" /\ tasks[i].o.pc = "validate_url"
    /\ \E v \in ValidationsOf(tasks[i].o.url) : Settle(i, op_validate_url(tasks[i].o, v))
    /\ UNCHANGED <<frame, op>>

TaskDownloadValidate(i) ==
    /\ i <= N /\ tasks[i].pc = "running" /\ tasks[i].o.pc = "download_validate"
    /\ \E v \in ValidationsOf(tasks[i].o.url) : Settle(i, op_download_validate(tasks[i].o, v))
    /\ UNCHANGED <<frame, op>>

TaskGet(i) ==
    /\ i <= N /\ tasks[i].pc = "running" /\ tasks[i].o.pc = "get"
    /\ \E r \in FetchResults : Settle(i, op_get(tasks[i].o, r))
    /\ UNCHANGED <<frame, op>>

TaskStore(i) ==
    /\ i <= N /\ tasks[i].pc = "running" /\ tasks[i].o.pc = "store"
    /\ \E st \in StoreResults : Settle(i, op_store(tasks[i].o, st))
    /\ UNCHANGED <<frame, op>>

\* after the loop: print the summary, return success_count
SyncReport ==
    /\ batch.pc = "running" /\ ~batch.use_async
    /\ batch.i > N
    /\ batch' = [batch EXCEPT !.pc = "reported", !.returned = batch.success_count]
    /\ UNCHANGED <<frame, op, tasks>>

Gather_first_completed ==
    /\ batch.pc = "running" /\ batch.use_async
    /\ N > 0 => \E i \in 1..N : tasks[i].pc = "done"
    /\ batch' = [batch EXCEPT !.pc = "reported",
                   !.returned = Cardinality({i \in 1..N : tasks[i].result}),
                   !.success_count = Cardinality({i \in 1..N : tasks[i].result})]
    /\ UNCHANGED <<frame, op, tasks>>

\* results = await asyncio.gather(*[...], return_exceptions=True);
\* success_count = sum(1 for result in results if result is True)
Gather ==
    /\ batch.pc = "running" /\ batch.use_async
    /\ \A i \in 1..N : tasks[i].pc = "done"
    /\ batch' = [batch EXCEPT !.pc = "reported",
                   !.returned = Cardinality({i \in 1..N : tasks[i].result}),
                   !.success_count = Cardinality({i \in 1..N : tasks[i].result})]
    /\ UNCHANGED <<frame, op, tasks>>

BatchNext ==
    \/ \E i \in 1..MaxUrls :
          \/ SyncStart(i)
          \/ Acquire(i)
          \/ TaskValidateUrl(i)
          \/ TaskDownloadValidate(i)
          \/ TaskGet(i)
          \/ TaskStore(i)
    \/ SyncReport
    \/ Gather

SpecBatch == BatchInit /\ [][BatchNext]_vars

(***************************************************************************)
(* SpecAsync: the concurrent mode alone, every started step of an          *)
(* operation ending (each network call carries a timeout) and the event    *)
(* loop running whatever is ready                                          *)
(***************************************************************************)
AsyncInit ==
    /\ BatchInit
    /\ batch.use_async

AsyncNext ==
    \/ \E i \in 1..MaxUrls :
          \/ Acquire(i)
          \/ TaskDownloadValidate(i)
          \/ TaskGet(i)
          \/ TaskStore(i)
    \/ Gather

SpecAsync == AsyncInit /\ [][AsyncNext]_vars /\ WF_vars(AsyncNext)

InFlight == Cardinality({i \in 1..Len(tasks) : tasks[i].pc = "running"})

\* C9: in concurrent mode at most 3 operations are in flight at any point, a
\* permit is held exactly by the operations in flight (so it is given back on
\* success and on failure), and every operation eventually starts and completes.
C9_BoundedAndComplete ==
    /\ [](InFlight <= 3 /\ batch.permits = 3 - InFlight)
    /\ <>(/\ batch.pc = "reported"
          /\ \A i \in 1..N : tasks[i].pc = "done" /\ tasks[i].runs = 1)

\* the cap binds: three in flight and a fourth waiting for a permit
C9_Witness ==
    /\ InFlight = 3
    /\ batch.permits = 0
    /\ \E i \in 1..N : tasks[i].pc = "pending"

\* C10: when add_multiple reports its count, every list position has produced
\* exactly one outcome: none dropped, none run twice; in concurrent mode the
\* count is reported only after all operations have finished.
C10_OneOutcomeEach ==
    /\ Len(tasks) = N
    /\ \A i \in 1..N :
          /\ tasks[i].runs <= 1
          /\ tasks[i].outcomes <= tasks[i].runs
          /\ tasks[i].pc = "done" <=> tasks[i].outcomes = 1
    /\ batch.pc = "reported" =>
          /\ \A i \in 1..N :
                tasks[i].pc = "done" /\ tasks[i].runs = 1 /\ tasks[i].outcomes = 1
          /\ batch.returned = Cardinality({i \in 1..N : tasks[i].result})

C10_Witness ==
    /\ batch.pc = "reported"
    /\ batch.use_async
    /\ N = 3
    /\ batch.urls[1] = batch.urls[3]
    /\ batch.returned = 2

Failed == {i \in 1..N : tasks[i].pc = "done" /\ ~tasks[i].result}

C12_SequentialInOrder ==
    (batch.pc # "idle" /\ ~batch.use_async) =>
        /\ \A i \in 1..N : \A j \in 1..N :
              (j < i /\ tasks[i].pc # "pending") =>
                  tasks[j].pc = "done" /\ tasks[j].outcomes = 1
        /\ \A i \in 1..N : tasks[i].pc = "running" => batch.i = i
        /\ batch.success_count =
              Cardinality({j \in 1..N : tasks[j].pc = "done" /\ tasks[j].result})

\* the second URL is being stored after the first failed, the third not yet started
C12_Witness ==
    /\ ~batch.use_async
    /\ N = 3
    /\ tasks[1].pc = "done" /\ ~tasks[1].result
    /\ tasks[2].pc = "running" /\ tasks[2].o.pc = "store"
    /\ tasks[3].pc = "pending"

\* C13: the count add_multiple returns is the number of positions whose
\* operation got non-empty decoded content, wrote the file and saved the
\* config; an operation that has not done all three is not counted.
C13_CountIsStored ==
    /\ \A i \in 1..N :
          /\ tasks[i].pc = "done" => (tasks[i].result <=> tasks[i].stored)
          /\ tasks[i].pc # "done" => ~tasks[i].stored
          /\ (tasks[i].pc = "running" /\ tasks[i].o.pc = "store") =>
                tasks[i].o.content = "text" /\ tasks[i].o.gets = 1
    /\ batch.pc = "reported" =>
          batch.returned = Cardinality({i \in 1..N : tasks[i].stored})

\* concurrent mode, three URLs of which only the second was stored
C13_Witness ==
    /\ batch.pc = "reported"
    /\ batch.use_async
    /\ N = 3
    /\ {i \in 1..N : tasks[i].stored} = {2}
    /\ batch.returned = 1

(***************************************************************************)
(* download_content_sync step by step: the Content-Length check, the       *)
(* chunked read with its running total, the decoding                       *)
(***************************************************************************)
\* longest body, in bytes
MaxBody == 3

\* response.read(CHUNK_SIZE)
CHUNK_SIZE == 8192

\* the bytes bodies are made of: 'A', 0x80, 0xA9, 0xC3
Bytes == {65, 128, 169, 195}

Bodies == UNION {[1..n -> Bytes] : n \in 0..MaxBody}

MaxSizes == 0..MaxBody

Decimal == <<"0", "1", "2", "3", "4", "5", "6", "7", "8", "9">>

\* the Content-Length a response may carry: none, any number, not a number
DeclaredLengths ==
    {NoLengthHeader, LengthHeader("abc", FALSE, 0)}
        \cup {LengthHeader(Decimal[n + 1], TRUE, n) : n \in 0..(MaxBody + 1)}

Decoded(text) == [ok |-> TRUE, text |-> text]
Undecodable == [ok |-> FALSE, text |-> <<>>]

IsContinuation(b) == b >= 128 /\ b <= 191

\* bytes.decode('utf-8'), strict
RECURSIVE utf8_decode(_)
utf8_decode(bs) ==
    IF bs = <<>> THEN Decoded(<<>>)
    ELSE LET b1 == bs[1]
             n == IF b1 < 128 THEN 1
                  ELSE IF b1 >= 194 /\ b1 <= 223 THEN 2
                  ELSE IF b1 >= 224 /\ b1 <= 239 THEN 3
                  ELSE IF b1 >= 240 /\ b1 <= 244 THEN 4
                  ELSE 0
         IN  IF n = 0 \/ Len(bs) < n THEN Undecodable
             ELSE IF \E k \in 2..n : ~IsContinuation(bs[k]) THEN Undecodable
             ELSE IF \/ b1 = 224 /\ bs[2] < 160
                     \/ b1 = 237 /\ bs[2] > 159
                     \/ b1 = 240 /\ bs[2] < 144
                     \/ b1 = 244 /\ bs[2] > 143 THEN Undecodable
             ELSE LET cp == CASE n = 1 -> b1
                              [] n = 2 -> (b1 - 192) * 64 + (bs[2] - 128)
                              [] n = 3 -> (b1 - 224) * 4096 + (bs[2] - 128) * 64 + (bs[3] - 128)
                              [] OTHER -> (b1 - 240) * 262144 + (bs[2] - 128) * 4096
                                            + (bs[3] - 128) * 64 + (bs[4] - 128)
                      rest == utf8_decode(SubSeq(bs, n + 1, Len(bs)))
                  IN  IF rest.ok THEN Decoded(<<cp>> \o rest.text) ELSE Undecodable

\* bytes.decode('latin-1'): every byte is its own code point
latin1_decode(bs) == Decoded(bs)

\* what cp1252 makes of the bytes 0x80..0x9F, -1 where it defines nothing
CP1252_HIGH ==
    <<8364, -1, 8218, 402, 8222, 8230, 8224, 8225, 710, 8240, 352, 8249, 338, -1, 381, -1,
      -1, 8216, 8217, 8220, 8221, 8226, 8211, 8212, 732, 8482, 353, 8250, 339, -1, 382, 376>>

\* bytes.decode('cp1252')
cp1252_decode(bs) ==
    LET cp(b) == IF b >= 128 /\ b <= 159 THEN CP1252_HIGH[b - 127] ELSE b IN
    IF \E k \in 1..Len(bs) : cp(bs[k]) = -1 THEN Undecodable
    ELSE Decoded([k \in 1..Len(bs) |-> cp(bs[k])])

\* content_bytes.decode(encoding); iso-8859-1 is the codec latin-1 names
decode(bs, encoding) ==
    CASE encoding = "utf-8" -> utf8_decode(bs)
      [] encoding = "cp1252" -> cp1252_decode(bs)
      [] OTHER -> latin1_decode(bs)

FALLBACK_ENCODINGS_cp1252_first == <<"cp1252", "latin-1", "iso-8859-1">>

\* for encoding in ['latin-1', 'cp1252', 'iso-8859-1']
FALLBACK_ENCODINGS == <<"latin-1", "cp1252", "iso-8859-1">>

\* the first of the encodings that decodes the bytes, "" when none does
RECURSIVE first_decoding(_, _)
first_decoding(bs, encodings) ==
    IF encodings = <<>> THEN ""
    ELSE IF decode(bs, Head(encodings)).ok THEN Head(encodings)
    ELSE first_decoding(bs, Tail(encodings))

\* try utf-8; on UnicodeDecodeError the loop over the other encodings; the
\* DownloadError raised after the loop is caught by `except Exception` below it
decode_content(bs) ==
    IF decode(bs, "utf-8").ok THEN "utf-8" ELSE first_decoding(bs, FALLBACK_ENCODINGS)

\* download_content_sync(url, max_size) once the validation has passed: body is
\* what the server has yet to send, content_chunks the bytes kept (joined),
\* total_size the running total, reads the calls of response.read
NewDownload(max_size, clen, body) ==
    [pc |-> "open", max_size |-> max_size, clen |-> clen, sent |-> body, body |-> body,
     content_chunks |-> <<>>, total_size |-> 0, reads |-> 0, encoding |-> "",
     result |-> NoResult, log |-> <<>>]

dl_raise(f, cls, msg) == [Logged(f) EXCEPT !.pc = "done", !.result = Raised(cls, msg)]

\* urllib.request.urlopen(request, timeout=timeout) and the handlers for what it raises
dl_open(f, kind) ==
    CASE kind = "httperror" ->
            dl_raise(f, "network_simple.DownloadError",
                     <<"HTTP error ", "500", ": ", "Server Error">>)
      [] kind = "urlerror" ->
            dl_raise(f, "network_simple.NetworkError", <<"URL error: ", "Connection refused">>)
      [] kind = "timeout" ->
            dl_raise(f, "network_simple.DownloadError",
                     <<"Unexpected download error: ", "timed out">>)
      [] OTHER -> [Logged(f) EXCEPT !.pc = "length"]

dl_length_ge(f) ==
    IF f.clen.present /\ ~f.clen.numeric
    THEN dl_raise(f, "network_simple.DownloadError",
                  <<"Unexpected download error: ", "invalid literal for int()">>)
    ELSE IF f.clen.present /\ f.clen.value >= f.max_size
    THEN dl_raise(f, "network_simple.ContentTooLargeError",
                  <<"Content too large: ", f.clen.text, " bytes">>)
    ELSE [Logged(f) EXCEPT !.pc = "read"]

\* if content_length and int(content_length) > max_size: raise ContentTooLargeError
dl_length(f) ==
    IF f.clen.present /\ ~f.clen.numeric
    THEN dl_raise(f, "network_simple.DownloadError",
                  <<"Unexpected download error: ", "invalid literal for int()">>)
    ELSE IF f.clen.present /\ f.clen.value > f.max_size
    THEN dl_raise(f, "network_simple.ContentTooLargeError",
                  <<"Content too large: ", f.clen.text, " bytes">>)
    ELSE [Logged(f) EXCEPT !.pc = "read"]

dl_read_unchecked(f, k) ==
    LET g == [f EXCEPT !.reads = @ + 1, !.log = IF f.reads = 0 THEN Append(@, "read") ELSE @]
    IN  IF k = 0 THEN [g EXCEPT !.pc = "decode"]
        ELSE [g EXCEPT !.body = SubSeq(f.body, k + 1, Len(f.body)),
                       !.total_size = @ + k,
                       !.content_chunks = @ \o SubSeq(f.body, 1, k)]

\* one turn of the loop: chunk = response.read(CHUNK_SIZE), k bytes long (0 at
\* the end of the body); total_size += len(chunk); the check; the append
dl_read(f, k) ==
    LET g == [f EXCEPT !.reads = @ + 1, !.log = IF f.reads = 0 THEN Append(@, "read") ELSE @]
        chunk == SubSeq(f.body, 1, k)
        total == f.total_size + Len(chunk)
    IN  IF k = 0 THEN [g EXCEPT !.pc = "decode"]
        ELSE IF total > f.max_size
        THEN [g EXCEPT !.pc = "done", !.total_size = total,
                       !.body = SubSeq(f.body, k + 1, Len(f.body)),
                       !.result = Raised("network_simple.ContentTooLargeError",
                                         <<"Content exceeded ", "max_size",
                                           " bytes during download">>)]
        ELSE [g EXCEPT !.total_size = total,
                       !.body = SubSeq(f.body, k + 1, Len(f.body)),
                       !.content_chunks = @ \o chunk]

\* response.read raises (the socket times out, the connection breaks)
dl_read_error(f) ==
    [f EXCEPT !.pc = "done", !.reads = @ + 1,
              !.log = IF f.reads = 0 THEN Append(@, "read") ELSE @,
              !.result = Raised("network_simple.DownloadError",
                                <<"Unexpected download error: ", "timed out">>)]

\* content_bytes = b''.join(content_chunks) and its decoding
dl_decode(f) ==
    LET encoding == decode_content(f.content_chunks) IN
    IF encoding = ""
    THEN dl_raise(f, "network_simple.DownloadError",
                  <<"Unexpected download error: ", "Cannot decode content: ">>)
    ELSE [Logged(f) EXCEPT !.pc = "done", !.encoding = encoding,
            !.result = [kind |-> "content", cls |-> "",
                        msg |-> decode(f.content_chunks, encoding).text]]

(***************************************************************************)
(* SpecFetch: one download, over every body, Content-Length and max_size   *)
(***************************************************************************)
FetchInit ==
    /\ frame \in {NewDownload(m, cl, b) : m \in MaxSizes, cl \in DeclaredLengths, b \in Bodies}
    /\ op = IdleOp
    /\ batch = IdleBatch
    /\ tasks = <<>>

Open ==
    /\ frame.pc = "open"
    /\ \E kind \in {"ok", "httperror", "urlerror", "timeout"} : frame' = dl_open(frame, kind)
    /\ UNCHANGED <<op, batch, tasks>>

CheckLength ==
    /\ frame.pc = "length"
    /\ frame' = dl_length(frame)
    /\ UNCHANGED <<op, batch, tasks>>

ReadChunk ==
    /\ frame.pc = "read"
    /\ \E k \in 0..Min(CHUNK_SIZE, Len(frame.body)) :
          /\ k = 0 <=> frame.body = <<>>
          /\ frame' = dl_read(frame, k)
    /\ UNCHANGED <<op, batch, tasks>>

ReadFails ==
    /\ frame.pc = "read"
    /\ frame' = dl_read_error(frame)
    /\ UNCHANGED <<op, batch, tasks>>

Decode ==
    /\ frame.pc = "decode"
    /\ frame' = dl_decode(frame)
    /\ UNCHANGED <<op, batch, tasks>>

FetchNext ==
    \/ Open
    \/ CheckLength
    \/ ReadChunk
    \/ ReadFails
    \/ Decode

SpecFetch == FetchInit /\ [][FetchNext]_vars

TooLarge(r, piece) ==
    /\ r.kind = "raise"
    /\ r.cls = "network_simple.ContentTooLargeError"
    /\ r.msg[1] = piece

\* C14: at every point of the chunked read the bytes kept are within max_size;
\* once the running total has passed max_size the fetch has ended with
\* ContentTooLargeError, whatever the Content-Length said; content is returned
\* only when the total never passed max_size.
C14_StreamingAbort ==
    /\ Len(frame.content_chunks) <= frame.max_size
    /\ Len(frame.content_chunks) <= frame.total_size
    /\ frame.total_size + Len(frame.body) = Len(frame.sent)
    /\ frame.total_size > frame.max_size =>
          /\ frame.pc = "done"
          /\ TooLarge(frame.result, "Content exceeded ")
    /\ frame.result.kind = "content" =>
          /\ frame.total_size <= frame.max_size
          /\ frame.content_chunks = frame.sent
          /\ Len(frame.result.msg) <= frame.max_size

\* a Content-Length of 1 under a limit of 2 and a body of 3 bytes: the second
\* read passes the limit and the fetch aborts
C14_Witness ==
    /\ frame.clen.present /\ frame.clen.numeric /\ frame.clen.value = 1
    /\ frame.max_size = 2
    /\ Len(frame.sent) = 3
    /\ frame.reads = 2
    /\ frame.total_size = 3
    /\ TooLarge(frame.result, "Content exceeded ")

DeclaredOver(f) == f.clen.present /\ f.clen.numeric /\ f.clen.value > f.max_size

\* C15: a response whose Content-Length is greater than max_size ends the fetch
\* with ContentTooLargeError before any read; a Content-Length equal to max_size
\* (or below) passes this check and the read begins.
C15_DeclaredLength ==
    InLog(frame, "length") =>
        /\ DeclaredOver(frame) =>
              /\ frame.pc = "done"
              /\ frame.result = Raised("network_simple.ContentTooLargeError",
                                       <<"Content too large: ", frame.clen.text, " bytes">>)
              /\ frame.reads = 0
              /\ frame.total_size = 0
        /\ (frame.clen.present /\ frame.clen.numeric /\ frame.clen.value <= frame.max_size) =>
              /\ ~TooLarge(frame.result, "Content too large: ")
              /\ frame.log = <<"open", "length">> => frame.pc = "read"

C15_Witness ==
    /\ frame.clen.present /\ frame.clen.numeric
    /\ frame.clen.value = frame.max_size + 1
    /\ frame.pc = "done"
    /\ frame.reads = 0
    /\ Len(frame.sent) = 1
    /\ TooLarge(frame.result, "Content too large: ")

\* C18: the bytes are decoded with the first of utf-8, latin-1, cp1252,
\* iso-8859-1 that accepts them; bytes that utf-8 refuses and latin-1 accepts
\* come back latin-1-decoded; bytes all four refuse give the DownloadError
\* "Cannot decode content".
C18_DecodeOrder ==
    (frame.pc = "done" /\ InLog(frame, "decode")) =>
        LET bs == frame.content_chunks
            order == <<"utf-8", "latin-1", "cp1252", "iso-8859-1">>
            accepts == {k \in 1..4 : decode(bs, order[k]).ok}
        IN  /\ accepts = {} =>
                  /\ frame.result.kind = "raise"
                  /\ frame.result.cls = "network_simple.DownloadError"
                  /\ Contains(frame.result.msg, {"Cannot decode content: "})
            /\ \A k \in accepts :
                  (\A j \in 1..(k - 1) : j \notin accepts) =>
                      /\ frame.result.kind = "content"
                      /\ frame.encoding = order[k]
                      /\ frame.result.msg = decode(bs, order[k]).text
            /\ (~utf8_decode(bs).ok) =>
                  frame.result.kind = "content" /\ frame.result.msg = bs

\* 0xC3 0xA9 0x80: utf-8 refuses the last byte, latin-1 gives U+00C3 U+00A9 U+0080
C18_Witness ==
    /\ frame.pc = "done"
    /\ frame.content_chunks = <<195, 169, 128>>
    /\ frame.encoding = "latin-1"
    /\ frame.result.kind = "content"
    /\ frame.result.msg = <<195, 169, 128>>

\* C16: the document's file (and its config entry) changes only in the store
\* step, which is reached only with non-empty decoded content from a GET that
\* followed a valid validation; an operation that failed in validation or in
\* the fetch has left the file untouched.
C16_WriteOnlyAfterFetch ==
    /\ [][(op'.file # op.file \/ op'.entry # op.entry \/ op'.saved # op.saved) =>
            /\ op.pc = "store"
            /\ op.content = "text"
            /\ op.gets = 1
            /\ op.last = "valid"]_vars
    /\ [](op.pc # "idle" =>
            /\ op.content # "text" =>
                  op.file = "untouched" /\ ~op.entry /\ ~op.saved
            /\ op.pc \in {"validate_url", "download_validate", "get", "store"} =>
                  op.file = "untouched" /\ ~op.entry /\ ~op.saved)

\* the fetch of add_doc aborted in the middle of the stream: nothing on disk
C16_Witness ==
    /\ op.mode = "add_doc"
    /\ op.pc = "raised"
    /\ op.gets = 1
    /\ op.content = "none"
    /\ Contains(op.exc.msg, {"Content exceeded "})
    /\ op.file = "untouched"

\* C17: a body of zero bytes comes back from the fetcher as the empty string,
\* not as a failure; add_doc / add_doc_async then raise DownloadError
\* "Downloaded content is empty", write no file and add no config entry, and
\* the operation does not return (so it is not counted).
C17_EmptyIsFailure ==
    /\ \A get \in GetResponses :
          (get.kind = "ok" /\ get.size = 0 /\ (get.clen.present => get.clen.numeric)
               /\ get.clen.value <= MAX_CONTENT_LENGTH) =>
              fetch(get, MAX_CONTENT_LENGTH) = [kind |-> "content", cls |-> "", msg |-> <<>>]
    /\ op.pc # "idle" =>
          /\ op.content = "empty" =>
                /\ op.pc = "raised"
                /\ op.exc = Raised("exceptions.DownloadError", <<"Downloaded content is empty">>)
                /\ op.file = "untouched" /\ ~op.entry /\ ~op.saved
          /\ op.pc \in {"store", "returned"} /\ op.mode # "validate_url" =>
                op.content = "text"

C17_Witness ==
    /\ op.mode = "add_doc_async"
    /\ op.content = "empty"
    /\ op.pc = "raised"
    /\ op.gets = 1
    /\ op.last = "valid"

\* C19 (as claimed): in add_doc and in add_doc_async alike, an operation
\* validates its URL once and no more, and its GET has exactly one validation
\* before it.
C19_ValidatedOnce ==
    op.pc # "idle" /\ op.mode \in {"add_doc", "add_doc_async"} =>
        /\ op.validations <= 1
        /\ op.gets = 1 => op.validations = 1

\* the media type a Content-Type header names: type "/" subtype in lower case,
\* without the parameters and the optional whitespace before their ";"
MediaTypeNamed(ct) ==
    IF ct.sent = "text/plain ; charset=utf-8" THEN "text/plain" ELSE ct.media

\* C20 (as claimed): after a successful trial response the validator answers
\* invalid with the content-type reason exactly when the header is there and
\* names a media type outside the five listed; no header, an empty one or a
\* listed type with parameters is not rejected.
C20_ContentTypeRule ==
    (frame.pc = "done" /\ InLog(frame, "content_type")) =>
        LET named == MediaTypeNamed(frame.resp.ctype)
            rejected == /\ frame.result.kind = "invalid"
                        /\ frame.result.msg[1] = "Content type '"
        IN  rejected <=> (named # "" /\ named \notin ListedContentTypes)

C22_SoftFailures ==
    frame.pc = "done" =>
        /\ InLog(frame, "trial") =>
              /\ frame.result.kind \in {"valid", "invalid"}
              /\ frame.result.kind = "invalid" <=>
                    \E s \in {"trial", "content_type", "content_length"} : Fails(frame, s)
              /\ frame.result.kind = "invalid" => frame.result.msg # <<>>
              /\ frame.resp.kind = "httperror" =>
                    /\ frame.result.kind = "invalid"
                    /\ frame.result.msg[1] = "HTTP error "
                    /\ frame.result.msg[2] = frame.resp.code
        /\ ~InLog(frame, "trial") => frame.result.kind = "raise"
        /\ frame.result.kind = "valid" =>
              /\ frame.result.msg = <<>>
              /\ Len(frame.log) = Len(Steps)
              /\ \A i \in 1..Len(Steps) : ~Fails(frame, Steps[i])

\* a 404 on the trial request
C22_Witness ==
    /\ frame.pc = "done"
    /\ frame.resp.kind = "httperror"
    /\ frame.resp.code = "404"
    /\ frame.result = Returned(FALSE, <<"HTTP error ", "404", ": ", "Not Found">>)

\* the lines of a task's output that report a failure
FailureLines(out) ==
    {k \in 1..Len(out) : out[k].text \in {"Failed to download ", "Skipping ", "update failed: "}}

\* C23 (as claimed): in a run of add_multiple a failed URL has exactly one
\* line of failure output, naming the URL and the error; a successful URL has none.
C23_OneLinePerFailure ==
    batch.pc # "idle" /\ batch.kind = "add_multiple" =>
        \A i \in 1..N : tasks[i].pc = "done" =>
            IF tasks[i].result THEN FailureLines(tasks[i].out) = {}
            ELSE \E k \in 1..Len(tasks[i].out) :
                    /\ FailureLines(tasks[i].out) = {k}
                    /\ tasks[i].out[k].url = batch.urls[i]
                    /\ tasks[i].out[k].error

\* C23 (amended): a failed URL has exactly two lines of failure output, the
\* operation's "Failed to download <url>" followed by the batch's
\* "Skipping <url>: <error>", the one line that names both the URL and the
\* error; a successful URL has neither.
C23_FailureLines ==
    batch.pc # "idle" /\ batch.kind = "add_multiple" =>
        \A i \in 1..N : tasks[i].pc = "done" =>
            LET out == tasks[i].out
                url == batch.urls[i]
            IN  IF tasks[i].result
                THEN out = <<Line("Downloading ", url, FALSE), Line("Downloaded as ", NoUrl, FALSE)>>
                ELSE out = <<Line("Downloading ", url, FALSE),
                             Line("Failed to download ", url, FALSE),
                             Line("Skipping ", url, TRUE)>>

\* concurrent mode, the second of two URLs failed and the first did not
C23_Witness ==
    /\ batch.kind = "add_multiple"
    /\ batch.use_async
    /\ batch.pc = "reported"
    /\ N = 2
    /\ tasks[1].result /\ FailureLines(tasks[1].out) = {}
    /\ ~tasks[2].result /\ FailureLines(tasks[2].out) = {2, 3}

(***************************************************************************)
(* SpecStore: a DocManager over a stored document map, and one call of     *)
(* add_doc, update_doc or update_all on it, in either mode. The map is     *)
(* self.config["documents"] (a dict: insertion-ordered), `saved` what the   *)
(* config file holds, `files` the content file of each hash id.            *)
(***************************************************************************)
MaxDocs == 2

StoreUrls ==
    { [scheme |-> "https", host |-> "example.com", port |-> NoPortText],
      [scheme |-> "http", host |-> "example.com", port |-> NoPortText] }

\* hashlib.sha256(url.encode()).hexdigest()[:8]: one id per URL
generate_hash_id(url) == [sha256 |-> url]

\* a key of the config file that is not the hash of the URL stored under it
\* (config validation asks for 8 characters and a url, not for the hash)
ForeignId == [sha256 |-> NoUrl]

Ids == {generate_hash_id(u) : u \in StoreUrls} \cup {ForeignId}

\* meta: name, description and tags. "set" is what the user gave, "blank" the
\* None / None / [] of an entry add_doc creates
Entry(id, url, meta) == [id |-> id, url |-> url, meta |-> meta]

Keys(docs) == {docs[k].id : k \in 1..Len(docs)}

KeyPos(docs, id) == CHOOSE k \in 1..Len(docs) : docs[k].id = id

\* the stored maps a DocManager can load
DocMaps ==
    { d \in UNION {[1..n -> {Entry(id, u, "set") : id \in Ids, u \in StoreUrls}] :
                      n \in 0..MaxDocs} :
        \A j, k \in 1..Len(d) : j # k => d[j].id # d[k].id }

StoreKinds == {"add_doc", "update_doc", "update_all"}

\* the calls on a map: add_doc(url), update_doc(hash_id), update_all()
StoreArgs(kind) ==
    CASE kind = "add_doc" -> {[url |-> u, id |-> generate_hash_id(u)] : u \in StoreUrls}
      [] kind = "update_doc" -> {[url |-> NoUrl, id |-> id] : id \in Ids}
      [] OTHER -> {[url |-> NoUrl, id |-> ForeignId]}

\* update_all, concurrent: urls = [(hash_id, metadata["url"]) for ... in
\* docs.items()] and Semaphore(3); sequential: for hash_id in docs.keys(),
\* whose iterator remembers the dict's size
NewStore(kind, use_async, docs, arg) ==
    [pc |-> "running", kind |-> kind, use_async |-> use_async, arg |-> arg,
     urls |-> CASE kind = "add_doc" -> <<arg.url>>
                [] kind = "update_doc" ->
                      IF arg.id \in Keys(docs) THEN <<docs[KeyPos(docs, arg.id)].url>>
                      ELSE <<>>
                [] OTHER -> [k \in 1..Len(docs) |-> docs[k].url],
     permits |-> IF use_async /\ kind = "update_all" THEN UPDATE_SEMAPHORE ELSE 0,
     i |-> 1, success_count |-> 0, returned |-> -1, exc |-> "",
     size |-> Len(docs),
     docs |-> docs, saved |-> docs,
     files |-> [id \in Ids |-> IF id \in Keys(docs) THEN "old" ELSE "absent"],
     docs0 |-> docs,
     files0 |-> [id \in Ids |-> IF id \in Keys(docs) THEN "old" ELSE "absent"]]

StoreInit ==
    /\ frame = IdleFrame
    /\ op = IdleOp
    /\ batch \in UNION { {NewStore(k, a, d, arg) : arg \in StoreArgs(k)} :
                            k \in StoreKinds, a \in BOOLEAN, d \in DocMaps }
    /\ tasks = [i \in 1..Len(batch.urls) |-> PendingTask]

save_entry_replacing(docs, url) ==
    LET hash_id == generate_hash_id(url) IN
    IF hash_id \notin Keys(docs) THEN Append(docs, Entry(hash_id, url, "blank"))
    ELSE [docs EXCEPT ![KeyPos(docs, hash_id)] = Entry(hash_id, url, "blank")]

\* if hash_id not in self.config["documents"]: a new entry with no name, no
\* description and no tags; else: self.config["documents"][hash_id]["url"] = url
save_entry(docs, url) ==
    LET hash_id == generate_hash_id(url) IN
    IF hash_id \notin Keys(docs) THEN Append(docs, Entry(hash_id, url, "blank"))
    ELSE [docs EXCEPT ![KeyPos(docs, hash_id)].url = url]

\* what the store step o2 of an operation did to the store: the file
\* {hash_id}.md opened for writing and written, the entry, and
\* save_config(self.config), which writes the whole map
apply_store(b, o2) ==
    LET hash_id == generate_hash_id(o2.url)
        docs2 == IF o2.entry THEN save_entry(b.docs, o2.url) ELSE b.docs
    IN  [b EXCEPT !.files = IF o2.file = "untouched" THEN @
                            ELSE [@ EXCEPT ![hash_id] = o2.file],
                  !.docs = docs2,
                  !.saved = IF o2.saved THEN docs2 ELSE @]

\* the operation of position i moves to o2 over the store b; when that ends
\* it, update_all's wrapper takes the outcome (update_single's try inside the
\* semaphore, or the loop's try around update_doc, which re-raises), and a
\* single add_doc or update_doc ends as its operation did
StoreSettle(i, o2, b) ==
    IF o2.pc \in {"returned", "raised"}
    THEN LET ok == (o2.pc = "returned") IN
         /\ tasks' = [tasks EXCEPT ![i] = [pc |-> "done", o |-> IdleOp, result |-> ok,
                                           runs |-> @.runs, outcomes |-> @.outcomes + 1,
                                           stored |-> o2.content = "text"
                                                      /\ o2.file = "written" /\ o2.saved,
                                           out |-> o2.out]]
         /\ batch' = CASE b.kind = "update_all" /\ b.use_async -> release(b, ok)
                       [] b.kind = "update_all" -> loop_next(b, ok)
                       [] OTHER -> [b EXCEPT !.pc = IF ok THEN "returned" ELSE "raised",
                                             !.exc = IF ok THEN "" ELSE o2.exc.cls]
    ELSE /\ tasks' = [tasks EXCEPT ![i].o = o2]
         /\ batch' = b

\* add_doc(url), or asyncio.run(self.add_doc_async(url)); update_doc(hash_id):
\* DocumentNotFoundError for an unknown id, else the same on the stored url
CallStart ==
    /\ batch.pc = "running" /\ batch.kind \in {"add_doc", "update_doc"}
    /\ IF N = 0
       THEN /\ batch' = [batch EXCEPT !.pc = "raised",
                                      !.exc = "exceptions.DocumentNotFoundError"]
            /\ UNCHANGED tasks
       ELSE /\ tasks[1].pc = "pending"
            /\ tasks' = [tasks EXCEPT ![1].pc = "running", ![1].runs = @ + 1,
                            ![1].o = NewOp(IF batch.use_async THEN "add_doc_async"
                                           ELSE "add_doc", batch.urls[1])]
            /\ UNCHANGED batch
    /\ UNCHANGED <<frame, op>>

\* for hash_id in docs.keys(): the iterator's next() when the dict is not the
\* size it had when the loop began
IterChanged ==
    /\ batch.pc = "running" /\ batch.kind = "update_all" /\ ~batch.use_async
    /\ batch.i > 1 => tasks[batch.i - 1].pc = "done"
    /\ batch.i <= N => tasks[batch.i].pc = "pending"
    /\ Len(batch.docs) # batch.size
    /\ batch' = [batch EXCEPT !.pc = "raised", !.exc = "RuntimeError"]
    /\ UNCHANGED <<frame, op, tasks>>

\* try: if self.update_doc(hash_id): ...   update_doc reads the url the map
\* holds now and calls self.add_doc(url)
SyncUpdate(i) ==
    /\ batch.pc = "running" /\ batch.kind = "update_all" /\ ~batch.use_async
    /\ i <= N /\ batch.i = i
    /\ tasks[i].pc = "pending"
    /\ Len(batch.docs) = batch.size
    /\ tasks' = [tasks EXCEPT ![i].pc = "running", ![i].runs = @ + 1,
                              ![i].o = NewOp("add_doc", batch.docs[i].url)]
    /\ batch' = [batch EXCEPT !.urls[i] = batch.docs[i].url]
    /\ UNCHANGED <<frame, op>>

\* async with semaphore: result = await self.add_doc_async(url), url from the
\* list made before the first update
AsyncUpdate(i) ==
    /\ batch.pc = "running" /\ batch.kind = "update_all" /\ batch.use_async
    /\ i <= N
    /\ tasks[i].pc = "pending"
    /\ batch.permits > 0
    /\ batch' = [batch EXCEPT !.permits = @ - 1]
    /\ tasks' = [tasks EXCEPT ![i].pc = "running", ![i].runs = @ + 1,
                              ![i].o = NewOp("add_doc_async", batch.urls[i])]
    /\ UNCHANGED <<frame, op>>

StoreValidateUrl(i) ==
    /\ i <= N /\ tasks[i].pc = "running" /\ tasks[i].o.pc = "validate_url"
    /\ \E v \in ValidationsOf(tasks[i].o.url) :
          StoreSettle(i, op_validate_url(tasks[i].o, v), batch)
    /\ UNCHANGED <<frame, op>>

StoreDownloadValidate(i) ==
    /\ i <= N /\ tasks[i].pc = "running" /\ tasks[i].o.pc = "download_validate"
    /\ \E v \in ValidationsOf(tasks[i].o.url) :
          StoreSettle(i, op_download_validate(tasks[i].o, v), batch)
    /\ UNCHANGED <<frame, op>>

StoreGet(i) ==
    /\ i <= N /\ tasks[i].pc = "running" /\ tasks[i].o.pc = "get"
    /\ \E r \in FetchResults : StoreSettle(i, op_get(tasks[i].o, r), batch)
    /\ UNCHANGED <<frame, op>>

StoreWrite(i) ==
    /\ i <= N /\ tasks[i].pc = "running" /\ tasks[i].o.pc = "store"
    /\ \E st \in StoreResults :
          LET o2 == op_store(tasks[i].o, st)
          IN  StoreSettle(i, o2, apply_store(batch, o2))
    /\ UNCHANGED <<frame, op>>

\* the loop ran out of keys (or there were none: "No documents to update",
\* return 0): print the summary, return updated_count
UpdateReport ==
    /\ batch.pc = "running" /\ batch.kind = "update_all" /\ ~batch.use_async
    /\ batch.i > N
    /\ Len(batch.docs) = batch.size
    /\ batch' = [batch EXCEPT !.pc = "reported", !.returned = batch.success_count]
    /\ UNCHANGED <<frame, op, tasks>>

\* asyncio.gather(..., return_exceptions=True), the sum of the True results,
\* the summary
UpdateGather ==
    /\ batch.pc = "running" /\ batch.kind = "update_all" /\ batch.use_async
    /\ \A i \in 1..N : tasks[i].pc = "done"
    /\ batch' = [batch EXCEPT !.pc = "reported",
                   !.returned = Cardinality({i \in 1..N : tasks[i].result}),
                   !.success_count = Cardinality({i \in 1..N : tasks[i].result})]
    /\ UNCHANGED <<frame, op, tasks>>

StoreNext ==
    \/ CallStart
    \/ IterChanged
    \/ \E i \in 1..MaxDocs + 1 :
          \/ SyncUpdate(i)
          \/ AsyncUpdate(i)
          \/ StoreValidateUrl(i)
          \/ StoreDownloadValidate(i)
          \/ StoreGet(i)
          \/ StoreWrite(i)
    \/ UpdateReport
    \/ UpdateGather

SpecStore == StoreInit /\ [][StoreNext]_vars

\* C24: update_all, on any stored map and in either mode, attempts every
\* stored document exactly once, lets no failure out, and ends by printing
\* the summary and returning the number of documents updated.
C24_UpdateAllCompletes ==
    batch.kind = "update_all" =>
        /\ batch.pc # "raised"
        /\ batch.pc = "reported" =>
              /\ \A i \in 1..N : tasks[i].pc = "done" /\ tasks[i].runs = 1
              /\ N = Len(batch.docs0)
              /\ batch.returned = Cardinality({i \in 1..N : tasks[i].result})

\* C26: when add_doc or add_doc_async fails, the in-memory document map, the
\* persisted config and the files are as they were before the call.
C26_FailureLeavesStore ==
    batch.kind = "add_doc" /\ batch.pc = "raised" =>
        /\ batch.docs = batch.docs0
        /\ batch.saved = batch.docs0
        /\ batch.files = batch.files0

\* C27: when an operation succeeds for a URL whose hash id is already a key
\* of the document map, the map has the same keys in the same order, every
\* entry keeps its name, description and tags, every other entry is unchanged,
\* the entry's url is the URL, and of the files only {hash_id}.md is written.
C27_ExistingEntryKept ==
    [][\A i \in 1..N :
          LET url == tasks[i].o.url
              hash_id == generate_hash_id(url)
          IN  (/\ tasks[i].pc = "running" /\ tasks'[i].pc = "done" /\ tasks'[i].result
               /\ hash_id \in Keys(batch.docs)) =>
                  /\ Len(batch'.docs) = Len(batch.docs)
                  /\ \A k \in 1..Len(batch.docs) :
                        /\ batch'.docs[k].id = batch.docs[k].id
                        /\ batch'.docs[k].meta = batch.docs[k].meta
                        /\ batch.docs[k].id # hash_id => batch'.docs[k] = batch.docs[k]
                        /\ batch.docs[k].id = hash_id => batch'.docs[k].url = url
                  /\ batch'.files = [batch.files EXCEPT ![hash_id] = "written"]
                  /\ batch'.saved = batch'.docs]_vars

\* add_doc of a URL whose hash id was stored, with another URL in its entry,
\* beside a second document: the entry now carries the URL and its metadata
C27_Witness ==
    /\ batch.kind = "add_doc" /\ batch.pc = "returned"
    /\ Len(batch.docs0) = 2
    /\ batch.arg.id \in Keys(batch.docs0)
    /\ batch.docs0[KeyPos(batch.docs0, batch.arg.id)].url # batch.arg.url
    /\ batch.docs[KeyPos(batch.docs, batch.arg.id)] = Entry(batch.arg.id, batch.arg.url, "set")
    /\ batch.files[batch.arg.id] = "written"

(***************************************************************************)
(* validation.sanitize_filename on POSIX paths. A filename is the sequence *)
(* of its characters.                                                      *)
(***************************************************************************)
MaxName == 4

FilenameChars == {"c", "o", "n", "C", ".", "<", "/"}

Filenames == UNION {[1..n -> FilenameChars] : n \in 0..MaxName}

MaxLengths == 0..MaxName

RESERVED_NAMES ==
    { <<"c", "o", "n">>, <<"p", "r", "n">>, <<"a", "u", "x">>,
      <<"n", "u", "l">>, <<"c", "o", "m", "1">>, <<"c", "o", "m", "2">>,
      <<"c", "o", "m", "3">>, <<"c", "o", "m", "4">>, <<"c", "o", "m", "5">>,
      <<"c", "o", "m", "6">>, <<"c", "o", "m", "7">>, <<"c", "o", "m", "8">>,
      <<"c", "o", "m", "9">>, <<"l", "p", "t", "1">>, <<"l", "p", "t", "2">>,
      <<"l", "p", "t", "3">>, <<"l", "p", "t", "4">>, <<"l", "p", "t", "5">>,
      <<"l", "p", "t", "6">>, <<"l", "p", "t", "7">>, <<"l", "p", "t", "8">>,
      <<"l", "p", "t", "9">> }

\* str.lower() on the characters above
lower(s) == [k \in 1..Len(s) |-> IF s[k] = "C" THEN "c" ELSE s[k]]

\* '..' in filename or '/' in filename or '\\' in filename
has_traversal(s) ==
    \/ \E k \in 1..Len(s) : s[k] \in {"/", "\\"}
    \/ \E k \in 1..Len(s) - 1 : s[k] = "." /\ s[k + 1] = "."

\* Path(filename).name of a name without separators: '.' has no name
path_name(s) == IF s = <<".">> THEN <<>> ELSE s

\* re.sub(r'[<>:"/\\|?*\x00-\x1f]', '_', filename)
replace_dangerous(s) ==
    [k \in 1..Len(s) |-> IF s[k] \in {"<", ">", ":", "\"", "/", "\\", "|", "?", "*"}
                         THEN "_" ELSE s[k]]

Dots(s) == {k \in 1..Len(s) : s[k] = "."}

FirstDot(s) == CHOOSE k \in Dots(s) : \A j \in Dots(s) : k <= j

LastDot(s) == CHOOSE k \in Dots(s) : \A j \in Dots(s) : j <= k

\* filename.split('.')[0]
split_first(s) == IF Dots(s) = {} THEN s ELSE SubSeq(s, 1, FirstDot(s) - 1)

\* name, ext = filename.rsplit('.', 1)
rsplit_name(s) == SubSeq(s, 1, LastDot(s) - 1)

rsplit_ext(s) == SubSeq(s, LastDot(s) + 1, Len(s))

\* s[:m]: the first m characters, or for a negative m all but the last -m
slice_to(s, m) ==
    IF m >= 0 THEN SubSeq(s, 1, Min(m, Len(s))) ELSE SubSeq(s, 1, Max(Len(s) + m, 0))

\* if len(filename) > max_length: keep the extension, cut the name to
\* max_length - len(ext) - 1; without a dot cut the whole
truncate(s, max_length) ==
    IF Len(s) <= max_length THEN s
    ELSE IF Dots(s) # {}
         THEN slice_to(rsplit_name(s), max_length - Len(rsplit_ext(s)) - 1)
                  \o <<".">> \o rsplit_ext(s)
         ELSE slice_to(s, max_length)

SANITIZED_FILE == <<"s", "a", "n", "i", "t", "i", "z", "e", "d", "_", "f", "i", "l", "e">>

sanitize_filename(filename, max_length) ==
    IF filename = <<>>
    THEN [kind |-> "raise", cls |-> "validation.ValidationError", value |-> <<>>]
    ELSE IF has_traversal(filename)
    THEN [kind |-> "raise", cls |-> "validation.PathTraversalError", value |-> <<>>]
    ELSE LET cleaned == replace_dangerous(path_name(filename))
             safe == IF lower(split_first(cleaned)) \in RESERVED_NAMES
                     THEN <<"s", "a", "f", "e", "_">> \o cleaned ELSE cleaned
             cut == truncate(safe, max_length)
         IN  [kind |-> "return", cls |-> "",
              value |-> IF cut = <<>> \/ cut = <<".">> THEN SANITIZED_FILE ELSE cut]

NewSanitize(filename, max_length) ==
    [pc |-> "call", filename |-> filename, max_length |-> max_length,
     result |-> [kind |-> "none", cls |-> "", value |-> <<>>]]

SanitizeInit ==
    /\ frame \in {NewSanitize(f, n) : f \in Filenames, n \in MaxLengths}
    /\ op = IdleOp
    /\ batch = IdleBatch
    /\ tasks = <<>>

Sanitize ==
    /\ frame.pc = "call"
    /\ frame' = [frame EXCEPT !.pc = "done",
                              !.result = sanitize_filename(frame.filename, frame.max_length)]
    /\ UNCHANGED <<op, batch, tasks>>

SanitizeNext == Sanitize

SpecSanitize == SanitizeInit /\ [][SanitizeNext]_vars

\* C25: for every non-empty filename without '..', '/' or '\' and every
\* max_length, sanitize_filename returns a name of at most max_length
\* characters, and when it truncated a name with an extension the result still
\* ends with that extension.
C25_LengthAndExtension ==
    (/\ frame.pc = "done"
     /\ frame.filename # <<>>
     /\ ~has_traversal(frame.filename)) =>
        LET before == replace_dangerous(path_name(frame.filename))
            safe == IF lower(split_first(before)) \in RESERVED_NAMES
                    THEN <<"s", "a", "f", "e", "_">> \o before ELSE before
            value == frame.result.value
        IN  /\ frame.result.kind = "return"
            /\ Len(value) <= frame.max_length
            /\ (Len(safe) > frame.max_length /\ Dots(safe) # {}) =>
                  /\ Len(value) > Len(rsplit_ext(safe))
                  /\ SubSeq(value, Len(value) - Len(rsplit_ext(safe)), Len(value))
                        = <<".">> \o rsplit_ext(safe)

(***************************************************************************)
(* SpecCache: ConfigManager.load_config and save_config over the global    *)
(* ConfigCache, and a client holding the configs it was given. A config is *)
(* a dict whose "documents" value is another dict: `heap` holds the        *)
(* documents dicts, a config is its top-level value and the index of its   *)
(* documents dict. dict.copy() copies the top level and shares the rest.   *)
(***************************************************************************)
MaxConfigs == 2

MaxClock == 122

TTL_SECONDS == 60

StorageDirs == {".", "docs"}

DocKeys == {"aaaaaaaa", "bbbbbbbb"}

\* config.copy()
copy(config) == [storage |-> config.storage, documents |-> config.documents]

NoCache == [present |-> FALSE, storage |-> ".", documents |-> 0, timestamp |-> 0]

\* the file, an empty cache, a client that has loaded nothing
NewCacheWorld(storage, documents) ==
    [last |-> "none",
     file |-> [storage |-> storage, documents |-> documents],
     cache |-> NoCache, heap |-> <<>>, configs |-> <<>>, now |-> 0]

CacheInit ==
    /\ frame \in {NewCacheWorld(sd, d) : sd \in StorageDirs, d \in SUBSET DocKeys}
    /\ op = IdleOp
    /\ batch = IdleBatch
    /\ tasks = <<>>

\* ConfigCache.get: None when absent or older than ttl_seconds
cache_hit(w) == w.cache.present /\ ~(w.now - w.cache.timestamp > TTL_SECONDS)

\* ConfigCache.set: self._cache[path] = config.copy(), the timestamp
cache_set(w, config) ==
    [present |-> TRUE, storage |-> copy(config).storage,
     documents |-> copy(config).documents, timestamp |-> w.now]

\* the value of a config: its top level and the content of its documents dict
Value(w, config) == [storage |-> config.storage, documents |-> w.heap[config.documents]]

\* load_config: the cached config's copy on a hit; else the file is read into
\* a new dict, which is cached (a copy of it) and returned
load_config(w) ==
    IF cache_hit(w)
    THEN [w EXCEPT !.last = "load",
                   !.configs = Append(@, copy([storage |-> w.cache.storage,
                                               documents |-> w.cache.documents]))]
    ELSE LET config == [storage |-> w.file.storage, documents |-> Len(w.heap) + 1]
             w2 == [w EXCEPT !.heap = Append(@, w.file.documents)]
         IN  [w2 EXCEPT !.last = "load",
                        !.cache = cache_set(w2, config),
                        !.configs = Append(@, config)]

\* save_config: the validated config (the same dict) is written to the file
\* and cached
save_config(w, config) ==
    [w EXCEPT !.last = "save",
              !.file = Value(w, config),
              !.cache = cache_set(w, config)]

Load ==
    /\ Len(frame.configs) < MaxConfigs
    /\ frame' = load_config(frame)
    /\ UNCHANGED <<op, batch, tasks>>

Save(c) ==
    /\ c <= Len(frame.configs)
    /\ frame' = save_config(frame, frame.configs[c])
    /\ UNCHANGED <<op, batch, tasks>>

\* the client assigns config["storage_directory"]
SetStorage(c) ==
    /\ c <= Len(frame.configs)
    /\ \E sd \in StorageDirs \ {frame.configs[c].storage} :
          frame' = [frame EXCEPT !.last = "mutate", !.configs[c].storage = sd]
    /\ UNCHANGED <<op, batch, tasks>>

\* the client adds a document to config["documents"], or deletes one
SetDocuments(c) ==
    /\ c <= Len(frame.configs)
    /\ \E k \in DocKeys :
          LET d == frame.configs[c].documents
          IN  frame' = [frame EXCEPT !.last = "mutate",
                                     !.heap[d] = IF k \in @ THEN @ \ {k} ELSE @ \cup {k}]
    /\ UNCHANGED <<op, batch, tasks>>

\* time.time() moves on, by the cache's lifetime or just beyond it
Tick ==
    /\ \E dt \in {TTL_SECONDS, TTL_SECONDS + 1} :
          /\ frame.now + dt <= MaxClock
          /\ frame' = [frame EXCEPT !.last = "tick", !.now = @ + dt]
    /\ UNCHANGED <<op, batch, tasks>>

CacheNext ==
    \/ Load
    \/ \E c \in 1..MaxConfigs :
          \/ Save(c)
          \/ SetStorage(c)
          \/ SetDocuments(c)
    \/ Tick

SpecCache == CacheInit /\ [][CacheNext]_vars

\* C30: with caching, what load_config returns is what was last saved (or
\* read from the file), whatever the client did since to the configs it holds
\* without saving them; and the config just saved is what the cache holds.
C30_LoadIsolated ==
    /\ frame.last = "load" =>
          Value(frame, frame.configs[Len(frame.configs)]) = frame.file
    /\ frame.last = "save" =>
          Value(frame, [storage |-> frame.cache.storage,
                        documents |-> frame.cache.documents]) = frame.file

(***************************************************************************)
(* SpecInteractive: InteractiveManager.run's input loop over a DocManager. *)
(* documents is manager.config["documents"] in its order, each entry with  *)
(* its id and its tags; the rest is the InteractiveManager's fields. A     *)
(* handler that prompts is one action with the answers as its inputs.      *)
(***************************************************************************)
Tags == {"x", "y"}

TAG_ORDER == <<"x", "y">>

\* the id add_doc gives a document whose key is not the hash of its URL
AddedId == 0

DocIds(documents) == {documents[k].id : k \in 1..Len(documents)}

Ids_of(list) == {list[k] : k \in 1..Len(list)}

\* for metadata in documents.values(): self.available_tags.update(tags)
collect_available_tags(documents) == UNION {documents[k].tags : k \in 1..Len(documents)}

\* DocManager._filter_docs_by_tags, OR logic
filter_docs_by_tags(documents, tag_filters) ==
    IF tag_filters = {} THEN <<>>
    ELSE IF tag_filters = collect_available_tags(documents) THEN documents
    ELSE SelectSeq(documents, LAMBDA d : d.tags \cap tag_filters # {})

get_filtered_docs(w) ==
    IF w.current_tag_filters = {} THEN w.documents
    ELSE filter_docs_by_tags(w.documents, w.current_tag_filters)

update_docs_list_keep_selected(w) ==
    LET filtered_docs == get_filtered_docs(w) IN
    [w EXCEPT !.docs_list = [k \in 1..Len(filtered_docs) |-> filtered_docs[k].id],
              !.current_index = IF Len(filtered_docs) > 0
                                THEN Min(@, Len(filtered_docs) - 1) ELSE 0]

\* _update_docs_list: the list, the selection cut down to it, the cursor
update_docs_list(w) ==
    LET filtered_docs == get_filtered_docs(w) IN
    [w EXCEPT !.docs_list = [k \in 1..Len(filtered_docs) |-> filtered_docs[k].id],
              !.selected = @ \cap DocIds(filtered_docs),
              !.current_index = IF Len(filtered_docs) > 0
                                THEN Min(@, Len(filtered_docs) - 1) ELSE 0]

\* sorted(list(self.available_tags))
sorted_tags(tags) == SelectSeq(TAG_ORDER, LAMBDA t : t \in tags)

\* the document under the cursor
current_hash_id(w) == w.docs_list[w.current_index + 1]

\* run(): the tags collected, every tag selected as a filter, nothing
\* selected, the list built
NewInteractive(documents) ==
    update_docs_list(
        [pc |-> "main", documents |-> documents,
         selected |-> {}, current_index |-> 0, docs_list |-> <<>>,
         current_tag_filters |-> collect_available_tags(documents),
         available_tags |-> collect_available_tags(documents),
         available_tags_list |-> <<>>, current_tag_index |-> 0])

\* the stored maps run() goes on with: at least one document
InteractiveInit ==
    /\ frame \in {NewInteractive([k \in 1..Len(ts) |-> [id |-> k, tags |-> ts[k]]]) :
                     ts \in UNION {[1..n -> SUBSET Tags] : n \in 1..MaxDocs}}
    /\ op = IdleOp
    /\ batch = IdleBatch
    /\ tasks = <<>>

\* _handle_key returns True and the loop renders again
Handled(w) == frame' = w /\ UNCHANGED <<op, batch, tasks>>

\* 'j', or ESC [ B
KeyDown ==
    /\ frame.pc = "main"
    /\ Handled(IF frame.docs_list # <<>> /\ frame.current_index < Len(frame.docs_list) - 1
               THEN [frame EXCEPT !.current_index = @ + 1] ELSE frame)

\* 'k', or ESC [ A
KeyUp ==
    /\ frame.pc = "main"
    /\ Handled(IF frame.docs_list # <<>> /\ frame.current_index > 0
               THEN [frame EXCEPT !.current_index = @ - 1] ELSE frame)

\* ' ': _handle_toggle_selection
ToggleSelection ==
    /\ frame.pc = "main"
    /\ Handled(IF frame.docs_list = <<>> THEN frame
               ELSE [frame EXCEPT !.selected =
                        IF current_hash_id(frame) \in @ THEN @ \ {current_hash_id(frame)}
                        ELSE @ \cup {current_hash_id(frame)}])

\* 'a': _handle_toggle_all_selection
ToggleAllSelection ==
    /\ frame.pc = "main"
    /\ Handled([frame EXCEPT !.selected =
                   IF Cardinality(@) = Cardinality(Ids_of(frame.docs_list)) THEN {}
                   ELSE Ids_of(frame.docs_list)])

\* 'd': _handle_delete_operation. Nothing selected: a message. Answer not
\* yes: cancelled. Else remove_doc for each selected id, each of which may
\* fail and leave its entry (removed: the ones that went), then the list is
\* rebuilt and the selection cleared
Delete ==
    /\ frame.pc = "main"
    /\ \E yes \in BOOLEAN, removed \in SUBSET frame.selected :
          Handled(IF frame.selected = {} \/ ~yes THEN frame
                  ELSE LET w == update_docs_list(
                                   [frame EXCEPT !.documents =
                                       SelectSeq(@, LAMBDA d : d.id \notin removed)])
                       IN  [w EXCEPT !.selected = {}])

\* 'x': _handle_package_operation changes nothing of the manager
Package ==
    /\ frame.pc = "main"
    /\ Handled(frame)

\* 'u': _handle_update_operation: update_doc for each selected id. The map
\* gets a new untagged entry when a key is not the hash of its URL; the list
\* is not rebuilt
Update ==
    /\ frame.pc = "main"
    /\ \E adds \in BOOLEAN :
          Handled(IF frame.selected = {} \/ ~adds \/ AddedId \in DocIds(frame.documents)
                  THEN frame
                  ELSE [frame EXCEPT !.documents = Append(@, [id |-> AddedId, tags |-> {}])])

\* 's': _handle_metadata_operation on the document under the cursor.
\* set_metadata assigns the cleaned tags when they differ from the current
\* ones and saves; when the save fails the handler's except shows the error
\* and nothing is refreshed; else the tags are collected again and the list
\* rebuilt
Metadata ==
    /\ frame.pc = "main"
    /\ \E new_tags \in SUBSET Tags, saved \in BOOLEAN :
          Handled(IF frame.docs_list = <<>> THEN frame
                  ELSE LET pos == CHOOSE k \in 1..Len(frame.documents) :
                                      frame.documents[k].id = current_hash_id(frame)
                           w == [frame EXCEPT !.documents[pos].tags = new_tags]
                       IN  IF ~saved THEN w
                           ELSE update_docs_list(
                                   [w EXCEPT !.available_tags =
                                                collect_available_tags(w.documents)]))

\* 'f': _handle_tag_filter_mode: a message when there are no tags, else the
\* filter screen over the sorted tags
EnterFilterMode ==
    /\ frame.pc = "main"
    /\ Handled(IF frame.available_tags = {} THEN frame
               ELSE [frame EXCEPT !.pc = "filter",
                                  !.available_tags_list = sorted_tags(frame.available_tags),
                                  !.current_tag_index = 0])

\* filter screen, 'j' / 'k' and the arrows
FilterMove ==
    /\ frame.pc = "filter"
    /\ \E down \in BOOLEAN :
          Handled([frame EXCEPT !.current_tag_index =
                      IF down THEN Min(Len(frame.available_tags_list) - 1, @ + 1)
                      ELSE Max(0, @ - 1)])

\* filter screen, ' ': the tag under the cursor in or out of the filters
FilterToggle ==
    /\ frame.pc = "filter"
    /\ LET current_tag == frame.available_tags_list[frame.current_tag_index + 1]
       IN  Handled(update_docs_list(
                      [frame EXCEPT !.current_tag_filters =
                          IF current_tag \in @ THEN @ \ {current_tag}
                          ELSE @ \cup {current_tag}]))

\* filter screen, 'a'
FilterToggleAll ==
    /\ frame.pc = "filter"
    /\ Handled(update_docs_list(
                  [frame EXCEPT !.current_tag_filters =
                      IF Cardinality(@) = Cardinality(frame.available_tags) THEN {}
                      ELSE frame.available_tags]))

\* filter screen, enter or escape
FilterExit ==
    /\ frame.pc = "filter"
    /\ Handled([frame EXCEPT !.pc = "main", !.available_tags_list = <<>>,
                              !.current_tag_index = 0])

\* 'q': _handle_quit_confirmation, 'y' or 'n'
Quit ==
    /\ frame.pc = "main"
    /\ \E yes \in BOOLEAN :
          Handled(IF yes THEN [frame EXCEPT !.pc = "quit"] ELSE frame)

InteractiveNext ==
    \/ KeyDown
    \/ KeyUp
    \/ ToggleSelection
    \/ ToggleAllSelection
    \/ Delete
    \/ Package
    \/ Update
    \/ Metadata
    \/ EnterFilterMode
    \/ FilterMove
    \/ FilterToggle
    \/ FilterToggleAll
    \/ FilterExit
    \/ Quit

SpecInteractive == InteractiveInit /\ [][InteractiveNext]_vars

\* C28: after every handled key, every selected hash id is the id of a
\* document of docs_list.
C28_SelectedAreListed ==
    frame.selected \subseteq Ids_of(frame.docs_list)

\* on the filter screen, with a document selected before and still listed,
\* and the filters hiding another document
C28_Witness ==
    /\ frame.pc = "filter"
    /\ frame.selected # {}
    /\ Len(frame.docs_list) < Len(frame.documents)

\* C29: after every handled key, metadata edits and deletions included,
\* every active tag filter is one of the available tags.
C29_FiltersAreAvailable ==
    frame.current_tag_filters \subseteq frame.available_tags

====
